---- MODULE Spec2Model ----
(***************************************************************************)
(* Rotation YAML IntelliSense: the spell dictionary (SpellDatabase), the   *)
(* document symbol scan and the diagnostic pass                            *)
(* (RotationDiagnosticProvider), as driven by the extension's activation   *)
(* and document events.                                                    *)
(*                                                                         *)
(* Text is modelled as TLA+ strings; Len, SubSeq and \o act on them as     *)
(* on sequences of characters.  String positions are 1-based here; the     *)
(* columns stored in findings are the 0-based columns of the source.       *)
(* Intermediate values are handed on as operator arguments, so that each   *)
(* step of a function of the source is one operator of its own.            *)
(***************************************************************************)
EXTENDS Integers, Sequences, FiniteSets, TLC

\* ------------------------------------------------------------------------
\* Characters and elementary string functions (JavaScript String / RegExp
\* primitives used by the source).
\* ------------------------------------------------------------------------

LowerAlpha == "abcdefghijklmnopqrstuvwxyz"
UpperAlpha == "ABCDEFGHIJKLMNOPQRSTUVWXYZ"
DigitChars == "0123456789"

Ch(s, i) == SubSeq(s, i, i)

LowerSet == {"a", "b", "c", "d", "e", "f", "g", "h", "i", "j", "k", "l", "m",
             "n", "o", "p", "q", "r", "s", "t", "u", "v", "w", "x", "y", "z"}
UpperSet == {"A", "B", "C", "D", "E", "F", "G", "H", "I", "J", "K", "L", "M",
             "N", "O", "P", "Q", "R", "S", "T", "U", "V", "W", "X", "Y", "Z"}
DigitSet == {"0", "1", "2", "3", "4", "5", "6", "7", "8", "9"}

\* \w of a JavaScript regular expression: [A-Za-z0-9_]
WordSet == {"a", "b", "c", "d", "e", "f", "g", "h", "i", "j", "k", "l", "m",
            "n", "o", "p", "q", "r", "s", "t", "u", "v", "w", "x", "y", "z",
            "A", "B", "C", "D", "E", "F", "G", "H", "I", "J", "K", "L", "M",
            "N", "O", "P", "Q", "R", "S", "T", "U", "V", "W", "X", "Y", "Z",
            "0", "1", "2", "3", "4", "5", "6", "7", "8", "9", "_"}

\* \s, restricted to the white space that occurs in one line of text
SpaceSet == {" ", "\t"}

\* [a-z_] and [a-z0-9]
LowerUnderscoreSet == LowerSet \cup {"_"}
LowerAlnumSet == LowerSet \cup DigitSet

IsWordCh(c) == c \in WordSet
IsSpaceCh(c) == c \in SpaceSet

\* character at position i, "" beyond either end of the string
At(s, i) == IF i >= 1 /\ i <= Len(s) THEN Ch(s, i) ELSE ""

Rest(s, i) == IF i > Len(s) THEN "" ELSE SubSeq(s, i, Len(s))

\* s.startsWith(lit, i-1)
StartsWithAt(s, i, lit) ==
    /\ i >= 1
    /\ i + Len(lit) - 1 <= Len(s)
    /\ SubSeq(s, i, i + Len(lit) - 1) = lit

startsWith(s, lit) == StartsWithAt(s, 1, lit)

\* the least element of a set of positions, 0 for the empty set
FirstIn(S) == IF S = {} THEN 0 ELSE CHOOSE i \in S : \A j \in S : i <= j

\* the greatest element of a set of positions, 0 for the empty set
LastIn(S) == IF S = {} THEN 0 ELSE CHOOSE i \in S : \A j \in S : i >= j

\* s.indexOf(lit): 0-based index of the first occurrence, -1 when absent
indexOf(s, lit) == FirstIn({i \in 1..(Len(s) + 1) : StartsWithAt(s, i, lit)}) - 1

includes(s, lit) == \E i \in 1..(Len(s) + 1) : StartsWithAt(s, i, lit)

ToLowerMap == [c \in UpperSet |->
                 Ch(LowerAlpha, CHOOSE i \in 1..26 : Ch(UpperAlpha, i) = c)]

LowerCh(c) == IF c \in UpperSet THEN ToLowerMap[c] ELSE c

\* the concatenation F(lo) \o ... \o F(hi) of strings
RECURSIVE ConcatStr(_, _, _)
ConcatStr(F(_), lo, hi) ==
    IF lo > hi THEN ""
    ELSE IF lo = hi THEN F(lo)
    ELSE ConcatStr(F, lo, (lo + hi) \div 2) \o ConcatStr(F, (lo + hi) \div 2 + 1, hi)

toLowerCase(s) == LET F(i) == LowerCh(Ch(s, i)) IN ConcatStr(F, 1, Len(s))

\* first position >= i whose character is not in the class `set`
\* (Len(s) + 1 when the run reaches the end of the string)
SkipRun(s, i, set) ==
    IF i > Len(s) THEN i
    ELSE CHOOSE j \in i..(Len(s) + 1) :
            /\ At(s, j) \notin set
            /\ \A k \in i..(j - 1) : Ch(s, k) \in set

\* first position >= i holding a character that is not white space
SkipSpaces(s, i) == SkipRun(s, i, SpaceSet)

\* first position >= i holding a character that is not a word character
SkipWord(s, i) == SkipRun(s, i, WordSet)

\* last position <= i holding a character that is not white space (0: none)
LastNonSpace(s, i) ==
    IF i < 1 THEN i
    ELSE CHOOSE j \in 0..i :
            /\ At(s, j) \notin SpaceSet
            /\ \A k \in (j + 1)..i : Ch(s, k) \in SpaceSet

trimStart(s) == Rest(s, SkipSpaces(s, 1))

\* the characters a..b of s, "" when there are none
Slice(s, a, b) == IF a > b THEN "" ELSE SubSeq(s, a, b)

trim(s) == Slice(s, SkipSpaces(s, 1), LastNonSpace(s, Len(s)))

\* /^\d+$/.test(s)
AllDigits(s) == Len(s) > 0 /\ \A i \in 1..Len(s) : Ch(s, i) \in DigitSet

\* number of occurrences of the one-character string c in s
CountCh(s, c) == Cardinality({i \in 1..Len(s) : Ch(s, i) = c})

\* s.split(',')
RECURSIVE SplitFrom(_, _, _)
SplitFrom(s, i, cur) ==
    IF i > Len(s) THEN <<cur>>
    ELSE IF Ch(s, i) = "," THEN <<cur>> \o SplitFrom(s, i + 1, "")
    ELSE SplitFrom(s, i + 1, cur \o Ch(s, i))

splitComma(s) == SplitFrom(s, 1, "")

\* array.findIndex(p): 0-based, -1 when no element satisfies p
findIndex(arr, P(_)) == FirstIn({i \in 1..Len(arr) : P(arr[i])}) - 1

Max(a, b) == IF a >= b THEN a ELSE b
Min(a, b) == IF a <= b THEN a ELSE b

\* array.slice(0, n)
Take(arr, n) == SubSeq(arr, 1, Min(n, Len(arr)))

\* ------------------------------------------------------------------------
\* SpellDatabase: pure functions
\* ------------------------------------------------------------------------

\* .replace(/['']/g, '')
StripApostrophes(s) ==
    LET F(i) == IF Ch(s, i) = "'" THEN "" ELSE Ch(s, i)
    IN ConcatStr(F, 1, Len(s))

\* .replace(/[^a-z0-9]+/g, '_')
ReplaceNonAlnumRuns(s) ==
    LET F(i) == IF Ch(s, i) \in LowerAlnumSet THEN Ch(s, i)
                ELSE IF i > 1 /\ Ch(s, i - 1) \notin LowerAlnumSet THEN ""
                ELSE "_"
    IN ConcatStr(F, 1, Len(s))

\* .replace(/^_|_$/g, ''): one underscore at the start, one at the end
TrimUnderscoreEnds(s) ==
    Slice(s, IF startsWith(s, "_") THEN 2 ELSE 1,
             IF Len(s) >= 2 /\ Ch(s, Len(s)) = "_" THEN Len(s) - 1 ELSE Len(s))

\* .replace(/_+/g, '_')
CollapseUnderscores(s) ==
    LET F(i) == IF Ch(s, i) = "_" /\ i > 1 /\ Ch(s, i - 1) = "_" THEN "" ELSE Ch(s, i)
    IN ConcatStr(F, 1, Len(s))

\* normalizeName without the trimming of the ends
normalizeNameUntrimmed(name) ==
    CollapseUnderscores(ReplaceNonAlnumRuns(StripApostrophes(toLowerCase(name))))

normalizeName(name) ==
    CollapseUnderscores(
        TrimUnderscoreEnds(ReplaceNonAlnumRuns(StripApostrophes(toLowerCase(name)))))

\* the three fields of a SpellInfo
SpellInfo(id, name, normalizedName) ==
    [id |-> id, name |-> name, normalizedName |-> normalizedName]

\* parseCsvLine: split on commas outside quotes, "" inside quotes is one quote
RECURSIVE ParseCsvFrom(_, _, _, _)
ParseCsvFrom(line, i, current, inQuotes) ==
    IF i > Len(line) THEN <<trim(current)>>
    ELSE IF Ch(line, i) = "\""
         THEN IF inQuotes /\ At(line, i + 1) = "\""
              THEN ParseCsvFrom(line, i + 2, current \o "\"", inQuotes)
              ELSE ParseCsvFrom(line, i + 1, current, ~inQuotes)
    ELSE IF Ch(line, i) = "," /\ ~inQuotes
         THEN <<trim(current)>> \o ParseCsvFrom(line, i + 1, "", inQuotes)
    ELSE ParseCsvFrom(line, i + 1, current \o Ch(line, i), inQuotes)

parseCsvLine(line) == ParseCsvFrom(line, 1, "", FALSE)

DigitVal(c) == CHOOSE d \in 0..9 : Ch(DigitChars, d + 1) = c

RECURSIVE DigitsValue(_, _, _)
DigitsValue(s, i, acc) ==
    IF i <= Len(s) /\ Ch(s, i) \in DigitSet
    THEN DigitsValue(s, i + 1, acc * 10 + DigitVal(Ch(s, i)))
    ELSE acc

\* parseInt of the text that starts at position a, after the white space
ParseIntAt(s, a) ==
    LET sign == IF At(s, a) = "-" THEN -1 ELSE 1
        d    == IF At(s, a) \in {"-", "+"} THEN a + 1 ELSE a
    IN IF At(s, d) \in DigitSet THEN <<sign * DigitsValue(s, d, 0)>> ELSE <<>>

\* parseInt(s, 10): <<n>> for the leading integer of s, <<>> for NaN
parseInt(s) == ParseIntAt(s, SkipSpaces(s, 1))

\* a set that keeps the record already stored under the key
SetByNameKeepFirst(m, spell) ==
    IF \E k \in 1..Len(m) : m[k].normalizedName = spell.normalizedName
    THEN m
    ELSE Append(m, spell)

\* Map.prototype.set on the insertion-ordered map `spells` (key: normalizedName)
SetByName(m, spell) ==
    IF \E k \in 1..Len(m) : m[k].normalizedName = spell.normalizedName
    THEN [k \in 1..Len(m) |->
            IF m[k].normalizedName = spell.normalizedName THEN spell ELSE m[k]]
    ELSE Append(m, spell)

\* Map.prototype.set on the insertion-ordered map `spellsById` (key: id)
SetById(m, spell) ==
    IF \E k \in 1..Len(m) : m[k].id = spell.id
    THEN [k \in 1..Len(m) |-> IF m[k].id = spell.id THEN spell ELSE m[k]]
    ELSE Append(m, spell)

HasName(m, key) == \E k \in 1..Len(m) : m[k].normalizedName = key

\* a store that leaves the table of ids alone
StoreSpellByName(tables, spell) ==
    [spells     |-> SetByName(tables.spells, spell),
     spellsById |-> tables.spellsById]

\* this.spells.set(normalizedName, spell); this.spellsById.set(id, spell)
StoreSpell(tables, spell) ==
    [spells     |-> SetByName(tables.spells, spell),
     spellsById |-> SetById(tables.spellsById, spell)]

\* one data row from `const id = parseInt(idStr, 10)` on
LoadParsedRow(tables, id, name) ==
    IF id = <<>> THEN tables
    ELSE StoreSpell(tables, SpellInfo(id[1], name, normalizeName(name)))

\* one data row from `const idStr = columns[idIndex]` on
LoadColumns(tables, idStr, name) ==
    IF idStr = "" \/ name = "" THEN tables
    ELSE LoadParsedRow(tables, parseInt(idStr), name)

\* one data row, `line` being the trimmed text and `columns` its fields
LoadRow(tables, line, columns, idIndex, nameIndex) ==
    IF line = "" THEN tables
    ELSE IF Len(columns) <= Max(idIndex, nameIndex) THEN tables
    ELSE LoadColumns(tables, columns[idIndex + 1], columns[nameIndex + 1])

\* the data-row loop of loadFromCsv; tables = [spells, spellsById]
RECURSIVE LoadRows(_, _, _, _, _)
LoadRows(lines, i, idIndex, nameIndex, tables) ==
    IF i > Len(lines) THEN tables
    ELSE LoadRows(lines, i + 1, idIndex, nameIndex,
                  LoadRow(tables, trim(lines[i]), parseCsvLine(trim(lines[i])),
                          idIndex, nameIndex))

NoFile == <<>>

IsIdHeader(h) == h = "id"
IsNameHeader(h) == h = "name" \/ h = "name_lang"

TrimAll(arr) == [k \in 1..Len(arr) |-> trim(arr[k])]

\* loadFromCsv after the data-row loop has produced `tables`
LoadResult(db, tables) ==
    [db |-> [spells |-> tables.spells, spellsById |-> tables.spellsById,
             loaded |-> TRUE],
     result |-> Len(tables.spells) - Len(db.spells) > 0]

\* a test of the column indices that marks the database as loaded when it
\* fails
LoadWithIndicesMarking(db, file, idIndex, nameIndex) ==
    IF idIndex = -1 \/ nameIndex = -1
    THEN [db |-> [spells |-> db.spells, spellsById |-> db.spellsById,
                  loaded |-> TRUE],
          result |-> FALSE]
    ELSE LoadResult(db, LoadRows(file, 2, idIndex, nameIndex,
                                 [spells |-> db.spells, spellsById |-> db.spellsById]))

\* loadFromCsv from the test of the column indices on
LoadWithIndices(db, file, idIndex, nameIndex) ==
    IF idIndex = -1 \/ nameIndex = -1 THEN [db |-> db, result |-> FALSE]
    ELSE LoadResult(db, LoadRows(file, 2, idIndex, nameIndex,
                                 [spells |-> db.spells, spellsById |-> db.spellsById]))

\* loadFromCsv from the parsed header on
LoadWithHeader(db, file, header) ==
    LoadWithIndices(db, file, findIndex(header, IsIdHeader),
                    findIndex(header, IsNameHeader))

\* loadFromCsv on the file `file` (NoFile, or the lines of its content):
\* the database after the call and the value returned
loadFromCsv(db, file) ==
    IF file = NoFile THEN [db |-> db, result |-> FALSE]
    ELSE LoadWithHeader(db, file, TrimAll(splitComma(toLowerCase(file[1]))))

\* isValidSpell looking the name up as it is given
isValidSpellRaw(db, name) ==
    IF ~db.loaded THEN TRUE ELSE HasName(db.spells, name)

isValidSpell(db, name) ==
    IF ~db.loaded THEN TRUE ELSE HasName(db.spells, normalizeName(name))

\* one row of the dynamic-programming matrix from the row above it
RECURSIVE LevRow(_, _, _, _, _)
LevRow(a, bch, prev, j, cur) ==
    IF j > Len(a) THEN cur
    ELSE LevRow(a, bch, prev, j + 1,
                Append(cur, IF bch = Ch(a, j) THEN prev[j]
                            ELSE Min(prev[j] + 1, Min(cur[j] + 1, prev[j + 1] + 1))))

\* the rows matrix[i], i = 1..b.length, each of a.length + 1 cells
RECURSIVE LevRows(_, _, _, _)
LevRows(a, b, i, prev) ==
    IF i > Len(b) THEN prev
    ELSE IF Len(prev) = Len(a) + 1
         THEN LevRows(a, b, i + 1, LevRow(a, Ch(b, i), prev, 1, <<i>>))
         ELSE prev

levenshteinDistance(a, b) ==
    IF Len(a) = 0 THEN Len(b)
    ELSE IF Len(b) = 0 THEN Len(a)
    ELSE LevRows(a, b, 1, [j \in 1..(Len(a) + 1) |-> j - 1])[Len(a) + 1]

DefaultMaxDistance == 2
SimilarCap == 5

\* the filter of findSimilar without the test that leaves the name out
IsNearOrSame(distance, maxDistance) == distance <= maxDistance

\* the filter of findSimilar
IsNear(distance, maxDistance) == distance <= maxDistance /\ distance > 0

\* findSimilar from the normalized name on
SimilarTo(db, normalized, maxDistance) ==
    LET Near(spell) ==
          IsNear(levenshteinDistance(normalized, spell.normalizedName), maxDistance)
    IN Take(SelectSeq(db.spells, Near), SimilarCap)

findSimilar(db, name, maxDistance) == SimilarTo(db, normalizeName(name), maxDistance)

\* Map.prototype.get: <<>> for undefined, else the value in a sequence
GetByName(m, key) == SelectSeq(m, LAMBDA r : r.normalizedName = key)
GetById(m, id) == SelectSeq(m, LAMBDA r : r.id = id)

getSpell(db, name) == GetByName(db.spells, normalizeName(name))

getSpellById(db, id) == GetById(db.spellsById, id)

\* searchSpells from record k of the table on, results being those pushed
RECURSIVE SearchFrom(_, _, _, _, _, _)
SearchFrom(table, k, normalized, prefix, limit, results) ==
    IF k > Len(table) THEN results
    ELSE IF \/ startsWith(table[k].normalizedName, normalized)
            \/ includes(toLowerCase(table[k].name), toLowerCase(prefix))
         THEN IF Len(results) + 1 >= limit THEN Append(results, table[k])
              ELSE SearchFrom(table, k + 1, normalized, prefix, limit,
                              Append(results, table[k]))
         ELSE SearchFrom(table, k + 1, normalized, prefix, limit, results)

searchSpells(db, prefix, limit) ==
    SearchFrom(db.spells, 1, normalizeName(prefix), prefix, limit, <<>>)

\* ------------------------------------------------------------------------
\* RotationDiagnosticProvider: findings and regular-expression scanning
\* ------------------------------------------------------------------------

Error == "Error"
Warning == "Warning"
Information == "Information"

\* new vscode.Diagnostic(new vscode.Range(line, start, line, end), message, severity)
Diagnostic(line, start, end, message, severity) ==
    [line |-> line, start |-> start, end |-> end,
     message |-> message, severity |-> severity]

\* a finding on the columns start .. start + length of a line
Span(line, start, length, message, severity) ==
    Diagnostic(line, start, start + length, message, severity)

\* a finding on the whole line: Range(lineNum, 0, lineNum, text.length)
Whole(text, lineNum, message, severity) ==
    Diagnostic(lineNum, 0, Len(text), message, severity)

\* array.join(', ')
RECURSIVE JoinFrom(_, _)
JoinFrom(arr, i) ==
    IF i > Len(arr) THEN ""
    ELSE IF i = Len(arr) THEN arr[i]
    ELSE arr[i] \o ", " \o JoinFrom(arr, i + 1)

join(arr) == JoinFrom(arr, 1)

\* Set.prototype.add on an insertion-ordered set
SetAdd(set, x) ==
    IF \E k \in 1..Len(set) : set[k] = x THEN set ELSE Append(set, x)

Has(set, x) == \E k \in 1..Len(set) : set[k] = x

NoMatch == [index |-> 0, end |-> 0, capStart |-> 0, capEnd |-> 0]

\* the positions at which a word begins: the only ones where an expression
\* that starts with \b and a word character can match
WordStarts(text) ==
    {i \in 1..Len(text) : IsWordCh(Ch(text, i)) /\ ~IsWordCh(At(text, i - 1))}

\* (\w+) SUFFIX with the capture starting at capStart and ending before capEnd
CaptureTo(text, i, capStart, capEnd, suffix) ==
    IF capEnd > capStart /\ StartsWithAt(text, capEnd, suffix)
    THEN [index |-> i, end |-> capEnd + Len(suffix),
          capStart |-> capStart, capEnd |-> capEnd]
    ELSE NoMatch

\* PREFIX (\w+) SUFFIX at position i, `heads` being the alternatives of PREFIX
\* that are found at i
HeadMatch(text, i, heads, suffix) ==
    IF heads = {} THEN NoMatch
    ELSE CaptureTo(text, i, i + Len(CHOOSE h \in heads : TRUE),
                   SkipWord(text, i + Len(CHOOSE h \in heads : TRUE)), suffix)

\* a match of  \b PREFIX (\w+) SUFFIX  at position i, PREFIX one of the
\* literal alternatives `prefixes`, each of which begins with a word character
PrefixedNameAt(text, i, prefixes, suffix) ==
    IF IsWordCh(At(text, i - 1)) \/ ~IsWordCh(At(text, i)) THEN NoMatch
    ELSE HeadMatch(text, i, {lit \in prefixes : StartsWithAt(text, i, lit)}, suffix)

\* the match at position i, NoMatch for i = 0
PrefixedNameOr(text, i, prefixes, suffix) ==
    IF i = 0 THEN NoMatch ELSE PrefixedNameAt(text, i, prefixes, suffix)

\* regex.exec(text) with regex.lastIndex = pos - 1: the leftmost match that
\* starts at pos or later; `at` holds the word starts of text
ExecName(text, at, pos, prefixes, suffix) ==
    PrefixedNameOr(text,
        FirstIn({i \in at : /\ i >= pos
                           /\ PrefixedNameAt(text, i, prefixes, suffix).end > 0}),
        prefixes, suffix)

\* /^<header>\s*$/.test(text), header being "lists:", "config:" or "variables:"
IsSectionHeader(text, header) ==
    startsWith(text, header) /\ SkipSpaces(text, Len(header) + 1) > Len(text)

SkipLowerUnderscore(s, i) == SkipRun(s, i, LowerUnderscoreSet)

\* /^[a-z_]+:\s*$/ with the run of [a-z_] ending before position e
IsRootKeyTo(text, e) ==
    e > 1 /\ At(text, e) = ":" /\ SkipSpaces(text, e + 1) > Len(text)

\* /^[a-z_]+:\s*$/.test(text) && !text.startsWith(' ')
IsRootKey(text) == IsRootKeyTo(text, SkipLowerUnderscore(text, 1)) /\ ~startsWith(text, " ")

\* /^\s{2}(\w+):/ and, when `anchored`, /^\s{2}(\w+):\s*$/, the word ending
\* before position e: <<name>> when it matches, <<>> otherwise
EntryMatchTo(text, e, anchored) ==
    IF /\ IsSpaceCh(At(text, 1)) /\ IsSpaceCh(At(text, 2))
       /\ e > 3
       /\ At(text, e) = ":"
       /\ (anchored => SkipSpaces(text, e + 1) > Len(text))
    THEN <<SubSeq(text, 3, e - 1)>> ELSE <<>>

\* text.match(/^\s{2}(\w+):\s*$/) for anchored, text.match(/^\s{2}(\w+):/) otherwise
EntryMatch(text, anchored) == EntryMatchTo(text, SkipWord(text, 3), anchored)

\* lists.add(listMatch[1]) when the line matched
AddEntry(scan, match) ==
    IF match = <<>> THEN scan
    ELSE [inSection |-> scan.inSection, found |-> SetAdd(scan.found, match[1])]

\* the body of the scan loop shared by the three collect functions
CollectLine(text, header, anchored, scan) ==
    IF IsSectionHeader(text, header) THEN [inSection |-> TRUE, found |-> scan.found]
    ELSE IF scan.inSection /\ IsRootKey(text)
    THEN [inSection |-> FALSE, found |-> scan.found]
    ELSE IF scan.inSection THEN AddEntry(scan, EntryMatch(text, anchored))
    ELSE scan

\* the scan loop shared by the three collect functions
RECURSIVE CollectFrom(_, _, _, _, _)
CollectFrom(document, lineNum, header, anchored, scan) ==
    IF lineNum > Len(document) THEN scan.found
    ELSE CollectFrom(document, lineNum + 1, header, anchored,
                     CollectLine(document[lineNum], header, anchored, scan))

NotInSection == [inSection |-> FALSE, found |-> <<>>]

\* collectDefinedLists with inListsSection initialized to true
collectListsFromTop(document) ==
    CollectFrom(document, 1, "lists:", TRUE, [inSection |-> TRUE, found |-> <<>>])

collectDefinedLists(document) ==
    CollectFrom(document, 1, "lists:", TRUE, NotInSection)

collectDefinedConfigVars(document) ==
    CollectFrom(document, 1, "config:", TRUE, NotInSection)

collectDefinedVariables(document) ==
    CollectFrom(document, 1, "variables:", FALSE, NotInSection)

sharedConfigVars ==
    {"auto_target_enabled", "auto_target_range", "auto_target_delay",
     "auto_heal_enabled", "auto_heal_range",
     "interrupt_enabled", "interrupt_delay", "interrupt_threshold",
     "defensive_enabled", "defensive_threshold",
     "burst_enabled", "aoe_enabled", "aoe_threshold",
     "movement_threshold", "gcd_tolerance"}

HintCap == 5

\* `. Available: a, b, c...` appended when the document defines any name
AvailableHint(availableVars) ==
    IF Len(availableVars) > 0
    THEN ". Available: " \o join(Take(availableVars, HintCap))
         \o (IF Len(availableVars) > HintCap THEN "..." ELSE "")
    ELSE ""

\* the body of the loop over the matches of /\bconfig\.(\w+)/g without the
\* test on sharedConfigVars
ConfigFindingLocal(lineNum, mt, varName, definedConfigVars) ==
    IF ~Has(definedConfigVars, varName)
    THEN <<Span(lineNum, mt.index - 1 + 7, Len(varName),
                "Config variable \"" \o varName \o "\" is not defined"
                  \o AvailableHint(definedConfigVars),
                Warning)>>
    ELSE <<>>

\* the body of the loop over the matches of /\bconfig\.(\w+)/g
ConfigFinding(lineNum, mt, varName, definedConfigVars) ==
    IF ~Has(definedConfigVars, varName) /\ varName \notin sharedConfigVars
    THEN <<Span(lineNum, mt.index - 1 + 7, Len(varName),
                "Config variable \"" \o varName \o "\" is not defined"
                  \o AvailableHint(definedConfigVars),
                Warning)>>
    ELSE <<>>

\* the loop over the matches of /\bconfig\.(\w+)/g, the search at position pos
RECURSIVE ConfigFindings(_, _, _, _, _)

\* the loop from the match mt on
ConfigFindingsFrom(text, lineNum, at, mt, definedConfigVars) ==
    IF mt.end = 0 THEN <<>>
    ELSE ConfigFinding(lineNum, mt, SubSeq(text, mt.capStart, mt.capEnd - 1),
                       definedConfigVars)
         \o ConfigFindings(text, lineNum, at, mt.end, definedConfigVars)

ConfigFindings(text, lineNum, at, pos, definedConfigVars) ==
    ConfigFindingsFrom(text, lineNum, at, ExecName(text, at, pos, {"config."}, ""),
                       definedConfigVars)

\* the body of the loop over the matches of /\bvar\.(\w+)/g
\* the body of the loop over the matches of /\bvar\.(\w+)/g reporting with
\* the severity of the list check
VarFindingAsError(lineNum, mt, varName, definedVariables) ==
    IF ~Has(definedVariables, varName)
    THEN <<Span(lineNum, mt.index - 1 + 4, Len(varName),
                "Variable \"" \o varName \o "\" is not defined"
                  \o AvailableHint(definedVariables),
                Error)>>
    ELSE <<>>

VarFinding(lineNum, mt, varName, definedVariables) ==
    IF ~Has(definedVariables, varName)
    THEN <<Span(lineNum, mt.index - 1 + 4, Len(varName),
                "Variable \"" \o varName \o "\" is not defined"
                  \o AvailableHint(definedVariables),
                Warning)>>
    ELSE <<>>

\* the loop over the matches of /\bvar\.(\w+)/g, the search at position pos
RECURSIVE VarFindings(_, _, _, _, _)

\* the loop from the match mt on
VarFindingsFrom(text, lineNum, at, mt, definedVariables) ==
    IF mt.end = 0 THEN <<>>
    ELSE VarFinding(lineNum, mt, SubSeq(text, mt.capStart, mt.capEnd - 1),
                    definedVariables)
         \o VarFindings(text, lineNum, at, mt.end, definedVariables)

VarFindings(text, lineNum, at, pos, definedVariables) ==
    VarFindingsFrom(text, lineNum, at, ExecName(text, at, pos, {"var."}, ""),
                    definedVariables)

\* validateConfigAndVarReferences, `at` holding the word starts of text
ReferenceFindings(text, lineNum, at, definedConfigVars, definedVariables) ==
    ConfigFindings(text, lineNum, at, 1, definedConfigVars)
    \o VarFindings(text, lineNum, at, 1, definedVariables)

validateConfigAndVarReferences(text, lineNum, definedConfigVars, definedVariables) ==
    ReferenceFindings(text, lineNum, WordStarts(text), definedConfigVars, definedVariables)

OperatorSet == {"&", "|"}

SkipOperators(s, i) == SkipRun(s, i, OperatorSet)

\* text.match(/^\s*-\s*(.+)$/) with the dash expected at d and the first
\* character after the white space that follows it at c
ActionContentFrom(text, d, c) ==
    IF At(text, d) # "-" \/ d = Len(text) THEN <<>>
    ELSE IF c > Len(text) THEN <<Rest(text, Len(text))>>
    ELSE <<Rest(text, c)>>

\* text.match(/^\s*-\s*(.+)$/): <<actionContent>>, or <<>> when nothing follows the dash
ActionContentMatch(text) ==
    ActionContentFrom(text, SkipSpaces(text, 1), SkipSpaces(text, SkipSpaces(text, 1) + 1))

\* (,|$) at position q
CommaOrEnd(s, q) == q > Len(s) \/ Ch(s, q) = ","

\* /,if=\s*(,|$)/.test(s)
HasEmptyCondition(s) ==
    \E p \in 1..Len(s) :
        StartsWithAt(s, p, ",if=") /\ CommaOrEnd(s, SkipSpaces(s, p + 4))

\* the text from position p to the end of the run of operators there
OperatorRunAt(s, p) == IF p = 0 THEN "" ELSE SubSeq(s, p, SkipOperators(s, p) - 1)

\* s.match(/[&|]{3,}/): the matched text, "" when there is no match
OperatorRun(s) ==
    OperatorRunAt(s, FirstIn({p \in 1..Len(s) : SkipOperators(s, p) >= p + 3}))

\* /[&|]\s*(,|$)/.test(s)
HasTrailingOperator(s) ==
    \E p \in 1..Len(s) :
        Ch(s, p) \in OperatorSet /\ CommaOrEnd(s, SkipSpaces(s, p + 1))

\* /,if=[&|]/.test(s)
HasLeadingOperator(s) ==
    \E p \in 1..Len(s) : StartsWithAt(s, p, ",if=") /\ At(s, p + 4) \in OperatorSet

\* \s*=\s*true at position q of the lower-cased text
EqualsTrueAt(low, q) ==
    At(low, q) = "=" /\ StartsWithAt(low, SkipSpaces(low, q + 1), "true")

\* /\.<prop>\s*=\s*true/.test(low), prop being "up" or "down"
BooleanComparisonIn(low, prop) ==
    \E p \in 1..Len(low) :
        /\ StartsWithAt(low, p, "." \o prop)
        /\ EqualsTrueAt(low, SkipSpaces(low, p + 1 + Len(prop)))

\* /\.<prop>\s*=\s*true/i.test(s)
HasBooleanComparison(s, prop) == BooleanComparisonIn(toLowerCase(s), prop)

\* /^\s*-\s*,/ with the first character after the white space at d
MissingSpellNameAt(text, d) ==
    At(text, d) = "-" /\ At(text, SkipSpaces(text, d + 1)) = ","

\* /^\s*-\s*,/.test(text)
HasMissingSpellName(text) == MissingSpellNameAt(text, SkipSpaces(text, 1))

\* call=(\w*) at position p, 0 for no such position
CallAliasAt(s, p) ==
    IF p = 0 THEN <<>> ELSE <<Slice(s, p + 5, SkipWord(s, p + 5) - 1)>>

\* s.match(/\bcall=(\w*)/): <<listName>> (possibly <<"">>), <<>> when no match
CallAliasMatch(s) ==
    CallAliasAt(s, FirstIn({p \in 1..Len(s) :
                              ~IsWordCh(At(s, p - 1)) /\ StartsWithAt(s, p, "call=")}))

\* name=(\w+) at position q, 0 for no such position
ListNameAt(s, q) ==
    IF q = 0 THEN <<>> ELSE <<SubSeq(s, q + 5, SkipWord(s, q + 5) - 1)>>

\* .*name=(\w+) after position `after`: greedy, so the last name= that a
\* word character follows
LastNamed(s, after) ==
    LastIn({q \in after..Len(s) : StartsWithAt(s, q, "name=") /\ IsWordCh(At(s, q + 5))})

\* (?:call|run)_action_list.*name=(\w+) with the keyword at position p
ListCallAt(s, p) ==
    IF p = 0 THEN <<>>
    ELSE ListNameAt(s, LastNamed(s, IF StartsWithAt(s, p, "call_action_list")
                                    THEN p + 16 ELSE p + 15))

\* s.match(/(?:call|run)_action_list.*name=(\w+)/)
ListCallMatch(s) ==
    ListCallAt(s, FirstIn({p \in 1..Len(s) :
                             \/ StartsWithAt(s, p, "call_action_list")
                             \/ StartsWithAt(s, p, "run_action_list")}))

sharedLists ==
    {"spell_queue", "sanity_checks", "auto_target", "auto_heal",
     "variables", "precombat", "cooldowns", "defensives", "interrupts"}

\* the message of the undefined-list finding
UndefinedListMessage(listName, definedLists) ==
    "Action list \"" \o listName \o "\" is not defined"
    \o (IF Len(definedLists) > 0
        THEN ". Available lists: " \o join(definedLists) ELSE "")

If(cond, findings) == IF cond THEN findings ELSE <<>>

\* the check for unbalanced parentheses with the two counts exchanged in
\* the message
ParenFindingsExchanged(text, lineNum, openParens, closeParens) ==
    If(openParens # closeParens,
       <<Whole(text, lineNum,
               "Unbalanced parentheses: " \o ToString(closeParens)
                 \o " opening, " \o ToString(openParens) \o " closing", Error)>>)

\* the check for unbalanced parentheses
ParenFindings(text, lineNum, openParens, closeParens) ==
    If(openParens # closeParens,
       <<Whole(text, lineNum,
               "Unbalanced parentheses: " \o ToString(openParens)
                 \o " opening, " \o ToString(closeParens) \o " closing", Error)>>)

\* the check for double operators, `run` being the text matched by /[&|]{3,}/
OperatorRunFindings(text, lineNum, run) ==
    If(run # "",
       <<Span(lineNum, indexOf(text, run), Len(run), "Invalid operator sequence", Error)>>)

\* the check that a called list exists, from `if (listMatch)` on
UndefinedListFindings(text, lineNum, definedLists, listMatch) ==
    If(listMatch # <<>>
         /\ ~Has(definedLists, listMatch[1]) /\ listMatch[1] \notin sharedLists,
       <<Span(lineNum, indexOf(text, "name=" \o listMatch[1]) + 5, Len(listMatch[1]),
              UndefinedListMessage(listMatch[1], definedLists), Error)>>)

\* the checks on call= and on the name of a called list
ListFindings(text, lineNum, definedLists, callAliasMatch, listCall) ==
    If(callAliasMatch = <<"">>,
       <<Whole(text, lineNum, "call= requires a list name", Error)>>)
    \o UndefinedListFindings(text, lineNum, definedLists,
                             IF listCall = <<>> /\ callAliasMatch # <<>>
                                /\ callAliasMatch # <<"">>
                             THEN callAliasMatch ELSE listCall)

\* validateActionLine after `const actionContent = match[1]`
ActionFindings(text, lineNum, definedLists, actionContent) ==
    ParenFindings(text, lineNum, CountCh(actionContent, "("), CountCh(actionContent, ")"))
    \o If(HasEmptyCondition(actionContent),
          <<Span(lineNum, indexOf(text, ",if="), 4, "Empty condition after if=", Error)>>)
    \o OperatorRunFindings(text, lineNum, OperatorRun(actionContent))
    \o If(HasTrailingOperator(actionContent),
          <<Whole(text, lineNum, "Condition ends with an operator", Warning)>>)
    \o If(HasLeadingOperator(actionContent),
          <<Span(lineNum, indexOf(text, ",if="), 5,
                 "Condition starts with an operator (use ! for negation)", Warning)>>)
    \o If(HasBooleanComparison(actionContent, "up"),
          <<Whole(text, lineNum,
                  ".up already returns boolean, no need for =true (use just .up)",
                  Information)>>)
    \o If(HasBooleanComparison(actionContent, "down"),
          <<Whole(text, lineNum,
                  ".down already returns boolean, no need for =true (use just .down)",
                  Information)>>)
    \o If(HasMissingSpellName(text),
          <<Whole(text, lineNum, "Missing spell name before comma", Error)>>)
    \o If((startsWith(actionContent, "call_action_list")
             \/ startsWith(actionContent, "run_action_list"))
          /\ ~includes(actionContent, "name="),
          <<Whole(text, lineNum,
                  "call_action_list/run_action_list requires name= parameter", Error)>>)
    \o ListFindings(text, lineNum, definedLists,
                    CallAliasMatch(actionContent), ListCallMatch(actionContent))

\* validateActionLine after `const match = text.match(/^\s*-\s*(.+)$/)`
ActionMatchFindings(text, lineNum, definedLists, match) ==
    IF match = <<>> THEN <<>>
    ELSE ActionFindings(text, lineNum, definedLists, match[1])

validateActionLine(text, lineNum, definedLists) ==
    ActionMatchFindings(text, lineNum, definedLists, ActionContentMatch(text))

Units == {"player", "target", "focus", "mouseover"}
AuraFunctions == {"up", "down", "remains", "stacks"}

\* the expressions of validateSpellNames that hold a spell name, in order:
\* \b<one of prefixes>(\w+)<suffix>
patterns ==
    << [prefixes |-> {"buff."},     suffix |-> ".", type |-> "buff"],
       [prefixes |-> {"debuff."},   suffix |-> ".", type |-> "debuff"],
       [prefixes |-> {"dot."},      suffix |-> ".", type |-> "dot"],
       [prefixes |-> {"cooldown."}, suffix |-> ".", type |-> "cooldown"],
       [prefixes |-> {"totem."},    suffix |-> ".", type |-> "totem"],
       [prefixes |-> {"talent."},     suffix |-> "", type |-> "talent"],
       [prefixes |-> {"usable."},     suffix |-> "", type |-> "usable"],
       [prefixes |-> {"active_dot."}, suffix |-> "", type |-> "active_dot"],
       [prefixes |-> {"nameplates.debuff."}, suffix |-> ".", type |-> "nameplates.debuff"],
       [prefixes |-> {"nameplates.buff."},   suffix |-> ".", type |-> "nameplates.buff"],
       [prefixes |-> {"prev_gcd." \o d \o "." : d \in DigitSet},
        suffix |-> "", type |-> "prev_gcd"],
       [prefixes |-> {u \o ".buff." \o f \o "(" : u \in Units, f \in AuraFunctions},
        suffix |-> ")", type |-> "buff function"],
       [prefixes |-> {u \o ".debuff." \o f \o "(" : u \in Units, f \in AuraFunctions},
        suffix |-> ")", type |-> "debuff function"],
       [prefixes |-> {"player.talent("}, suffix |-> ")", type |-> "talent function"],
       [prefixes |-> {"player.prev_gcd_" \o d \o "(" : d \in {"1", "2", "3", "4", "5"}},
        suffix |-> ")", type |-> "prev_gcd function"] >>

RaidSize == 40

specialActions ==
    {"call_action_list", "run_action_list", "return", "stop_casting", "queue_spell",
     "trinket_1", "trinket_2", "healthstone", "health_potion",
     "mana_potion", "combat_potion", "target_enemy", "attack_target",
     "weapon_onuse", "wrist_onuse", "helm_onuse", "cloak_onuse", "belt_onuse",
     "interact_target", "interact_mouseover", "loot_a_rang", "augment_rune",
     "focus_party1", "focus_party2", "focus_party3", "focus_party4",
     "target_mouseover", "target_focus", "focus_target", "focus_mouseover", "call"}
    \cup {"focus_raid" \o ToString(i + 1) : i \in 0..(RaidSize - 1)}

Placeholders == {"SPELL", "TALENT", "VARNAME"}

\* similar.map(s => s.normalizedName)
NormalizedNames(similar) == [k \in 1..Len(similar) |-> similar[k].normalizedName]

\* `. Did you mean: a, b?` appended when findSimilar returned anything
Suggestion(similar) ==
    IF Len(similar) > 0
    THEN ". Did you mean: " \o join(NormalizedNames(similar)) \o "?"
    ELSE ""

DidYouMean(db, spellName) == Suggestion(findSimilar(db, spellName, DefaultMaxDistance))

\* /^\s*-\s*(\w+)/ with the dash expected at d and the word at c
ActionNameFrom(text, d, c) ==
    IF At(text, d) = "-" /\ SkipWord(text, c) > c
    THEN <<SubSeq(text, c, SkipWord(text, c) - 1)>> ELSE <<>>

\* text.match(/^\s*-\s*(\w+)/): <<spellName>>, <<>> when no match
ActionNameMatch(text) ==
    ActionNameFrom(text, SkipSpaces(text, 1), SkipSpaces(text, SkipSpaces(text, 1) + 1))

\* the action keyword check from `const spellName = actionMatch[1]` on
ActionNameFinding(text, lineNum, db, spellName) ==
    IF AllDigits(spellName) THEN <<>>
    ELSE IF spellName \notin specialActions /\ ~isValidSpell(db, spellName)
    THEN <<Span(lineNum, indexOf(text, spellName), Len(spellName),
                "Unknown spell: \"" \o spellName \o "\"" \o DidYouMean(db, spellName),
                Warning)>>
    ELSE <<>>

\* the action keyword check from `if (actionMatch)` on
ActionNameMatchFindings(text, lineNum, db, actionMatch) ==
    IF actionMatch = <<>> THEN <<>>
    ELSE ActionNameFinding(text, lineNum, db, actionMatch[1])

\* the action keyword check of validateSpellNames
ActionNameFindings(text, lineNum, db) ==
    ActionNameMatchFindings(text, lineNum, db, ActionNameMatch(text))

\* the body of the exec loop of one pattern, for the match mt
PatternFinding(text, lineNum, db, pattern, mt, spellName) ==
    IF spellName \in Placeholders THEN <<>>
    ELSE IF AllDigits(spellName) THEN <<>>
    ELSE IF ~isValidSpell(db, spellName)
    THEN <<Span(lineNum,
                (mt.index - 1) + indexOf(SubSeq(text, mt.index, mt.end - 1), spellName),
                Len(spellName),
                "Unknown spell in " \o pattern.type \o ": \"" \o spellName \o "\""
                  \o DidYouMean(db, spellName),
                Warning)>>
    ELSE <<>>

\* the exec loop of one pattern of validateSpellNames, the search at position pos
RECURSIVE PatternFindings(_, _, _, _, _, _)

\* the loop from the match mt on
PatternFindingsFrom(text, lineNum, db, pattern, at, mt) ==
    IF mt.end = 0 THEN <<>>
    ELSE PatternFinding(text, lineNum, db, pattern, mt,
                        SubSeq(text, mt.capStart, mt.capEnd - 1))
         \o PatternFindings(text, lineNum, db, pattern, at, mt.end)

PatternFindings(text, lineNum, db, pattern, at, pos) ==
    PatternFindingsFrom(text, lineNum, db, pattern, at,
                        ExecName(text, at, pos, pattern.prefixes, pattern.suffix))

\* the loop `for (const pattern of patterns)` from the k-th pattern on
RECURSIVE AllPatternFindings(_, _, _, _, _)
AllPatternFindings(text, lineNum, db, at, k) ==
    IF k > Len(patterns) THEN <<>>
    ELSE PatternFindings(text, lineNum, db, patterns[k], at, 1)
         \o AllPatternFindings(text, lineNum, db, at, k + 1)

validateSpellNames(text, lineNum, db) ==
    IF ~db.loaded THEN <<>>
    ELSE ActionNameFindings(text, lineNum, db)
         \o AllPatternFindings(text, lineNum, db, WordStarts(text), 1)

\* the patterns of checkCommonTypos: [\b]<lit><tail>, tail one of
\*   ""     nothing          "b"   \b             "gt"   \s*>
\*   "eq"   =+ (after ==)    "w"   \s+\w
typos ==
    << [lit |-> "buf.",      tail |-> "", ci |-> FALSE, message |-> "Did you mean \"buff.\"?", severity |-> Warning],
       [lit |-> "debbuf.",   tail |-> "", ci |-> FALSE, message |-> "Did you mean \"debuff.\"?", severity |-> Warning],
       [lit |-> "cooldonw.", tail |-> "", ci |-> FALSE, message |-> "Did you mean \"cooldown.\"?", severity |-> Warning],
       [lit |-> "talant.",   tail |-> "", ci |-> FALSE, message |-> "Did you mean \"talent.\"?", severity |-> Warning],
       [lit |-> "health_pct",    tail |-> "b", ci |-> FALSE, message |-> "Did you mean \"health.pct\"?", severity |-> Warning],
       [lit |-> "target_health", tail |-> "b", ci |-> FALSE, message |-> "Did you mean \"target.health.pct\"?", severity |-> Warning],
       [lit |-> "player_moving", tail |-> "b", ci |-> FALSE, message |-> "Did you mean \"player.moving\"?", severity |-> Warning],
       [lit |-> "active_enemie", tail |-> "b", ci |-> FALSE, message |-> "Did you mean \"active_enemies\"?", severity |-> Warning],
       [lit |-> "remaning",      tail |-> "b", ci |-> FALSE, message |-> "Did you mean \"remains\"?", severity |-> Warning],
       [lit |-> "stack", tail |-> "gt", ci |-> FALSE, message |-> "Did you mean \".stack>\"?", severity |-> Information],
       [lit |-> "=",     tail |-> "eq", ci |-> FALSE, message |-> "Use single = for equality", severity |-> Information],
       [lit |-> "and",   tail |-> "b",  ci |-> TRUE,  message |-> "Use & for AND operator", severity |-> Warning],
       [lit |-> "or",    tail |-> "b",  ci |-> TRUE,  message |-> "Use | for OR operator", severity |-> Warning],
       [lit |-> "not",   tail |-> "w",  ci |-> TRUE,  message |-> "Use ! for NOT operator", severity |-> Warning] >>

EqualsSet == {"="}

SkipEquals(s, i) == SkipRun(s, i, EqualsSet)

\* the tail of a typo pattern at position e: the position after the match,
\* 0 when the tail does not match; q is the first position >= e that holds
\* no white space
TypoTailAt(text, e, q, tail) ==
    IF tail = "" THEN e
    ELSE IF tail = "b" THEN (IF IsWordCh(At(text, e)) THEN 0 ELSE e)
    ELSE IF tail = "gt" THEN (IF At(text, q) = ">" THEN q + 1 ELSE 0)
    ELSE IF tail = "eq" THEN (IF At(text, e) = "=" THEN SkipEquals(text, e) ELSE 0)
    ELSE (IF q > e /\ IsWordCh(At(text, q)) THEN q + 1 ELSE 0)

\* the literal head of a typo pattern at i, `found` being the text at i..e-1
TypoHeadAt(text, i, e, found, typo) ==
    /\ e - 1 <= Len(text)
    /\ typo.lit = (IF typo.ci THEN toLowerCase(found) ELSE found)
    /\ (typo.tail = "eq" \/ ~IsWordCh(At(text, i - 1)))

\* the match of one typo pattern at position i: position after it, 0 for none
TypoEndTo(text, i, e, typo) ==
    IF ~TypoHeadAt(text, i, e, Slice(text, i, Min(e - 1, Len(text))), typo) THEN 0
    ELSE TypoTailAt(text, e, SkipSpaces(text, e), typo.tail)

TypoEndAt(text, i, typo) == TypoEndTo(text, i, i + Len(typo.lit), typo)

\* typo.pattern.exec(text) with lastIndex = pos - 1: start of the leftmost
\* match at pos or later, 0 for none; `at` holds the positions where the
\* pattern can start
ExecTypo(text, at, pos, typo) ==
    FirstIn({i \in at : i >= pos /\ TypoEndAt(text, i, typo) > 0})

\* the exec loop of one typo pattern, the search at position pos
RECURSIVE TypoFindings(_, _, _, _, _)

\* the loop from the match that starts at i on
TypoFindingsFrom(text, lineNum, typo, at, i) ==
    IF i = 0 THEN <<>>
    ELSE <<Diagnostic(lineNum, i - 1, TypoEndAt(text, i, typo) - 1,
                      typo.message, typo.severity)>>
         \o TypoFindings(text, lineNum, typo, at, TypoEndAt(text, i, typo))

TypoFindings(text, lineNum, typo, at, pos) ==
    TypoFindingsFrom(text, lineNum, typo, at, ExecTypo(text, at, pos, typo))

\* the loop `for (const typo of typos)` from the k-th typo on; a pattern that
\* begins with \b can start at the word starts only
RECURSIVE AllTypoFindings(_, _, _, _)
AllTypoFindings(text, lineNum, words, k) ==
    IF k > Len(typos) THEN <<>>
    ELSE TypoFindings(text, lineNum, typos[k],
                      IF typos[k].tail = "eq" THEN 1..Len(text) ELSE words, 1)
         \o AllTypoFindings(text, lineNum, words, k + 1)

checkCommonTypos(text, lineNum) == AllTypoFindings(text, lineNum, WordStarts(text), 1)

\* the body of the loop of updateDiagnostics: the findings it appends for one
\* line (lineNum is 0-based)
LineFindings(text, lineNum, db, definedLists, definedConfigVars, definedVariables) ==
    IF startsWith(trim(text), "#") \/ trim(text) = "" THEN <<>>
    ELSE If(startsWith(trimStart(text), "-"),
            validateActionLine(text, lineNum, definedLists))
         \o validateSpellNames(text, lineNum, db)
         \o validateConfigAndVarReferences(text, lineNum,
                                           definedConfigVars, definedVariables)
         \o checkCommonTypos(text, lineNum)

\* the loop of updateDiagnostics putting the findings of a line before
\* those collected so far
RECURSIVE ScanLinesBackwards(_, _, _, _, _, _)
ScanLinesBackwards(document, lineNum, db, definedLists, definedConfigVars, definedVariables) ==
    IF lineNum >= Len(document) THEN <<>>
    ELSE ScanLinesBackwards(document, lineNum + 1, db,
                            definedLists, definedConfigVars, definedVariables)
         \o LineFindings(document[lineNum + 1], lineNum, db,
                         definedLists, definedConfigVars, definedVariables)

\* the loop of updateDiagnostics leaving at the first line that has findings
RECURSIVE ScanLinesAborting(_, _, _, _, _, _)
ScanLinesAborting(document, lineNum, db, definedLists, definedConfigVars, definedVariables) ==
    IF lineNum >= Len(document) THEN <<>>
    ELSE LET found == LineFindings(document[lineNum + 1], lineNum, db,
                                   definedLists, definedConfigVars, definedVariables)
         IN  IF found # <<>> THEN found
             ELSE ScanLinesAborting(document, lineNum + 1, db,
                                    definedLists, definedConfigVars, definedVariables)

RECURSIVE ScanLines(_, _, _, _, _, _)
ScanLines(document, lineNum, db, definedLists, definedConfigVars, definedVariables) ==
    IF lineNum >= Len(document) THEN <<>>
    ELSE LineFindings(document[lineNum + 1], lineNum, db,
                      definedLists, definedConfigVars, definedVariables)
         \o ScanLines(document, lineNum + 1, db,
                      definedLists, definedConfigVars, definedVariables)

\* the diagnostics that updateDiagnostics sets for the document
updateDiagnostics(document, db) ==
    ScanLines(document, 0, db,
              collectDefinedLists(document),
              collectDefinedConfigVars(document),
              collectDefinedVariables(document))

\* ------------------------------------------------------------------------
\* The environment: workspace files, the extension directory, the document
\* ------------------------------------------------------------------------

WorkspaceFolder == "/ws"
ExtensionDir == "/ext"

\* path.dirname(dir)
Dirname(dir) == Slice(dir, 1, LastIn({i \in 1..Len(dir) : Ch(dir, i) = "/"}) - 1)

\* path.join(dir, rel), rel having its `..` segments in front
RECURSIVE Join(_, _)
Join(dir, rel) ==
    IF startsWith(rel, "../") THEN Join(Dirname(dir), Rest(rel, 4))
    ELSE dir \o "/" \o rel

searchPaths ==
    <<"spells.csv", "data/spells.csv", "yaml/spells.csv",
      "vs_plugin/spells.csv", "../spells.csv", "../vs_plugin/spells.csv">>

\* the names readdirSync can list in the folder's data/ directory
DataDirNames == <<"class_spells.csv", "notes.txt", "spells.csv">>

EndsWith(s, lit) == Len(s) >= Len(lit) /\ StartsWithAt(s, Len(s) - Len(lit) + 1, lit)

\* file.endsWith('.csv') && file.includes('spell')
IsSpellCsv(file) == EndsWith(file, ".csv") /\ includes(file, "spell")

\* path.join(dir, name) for each name
JoinAll(dir, names) == [k \in 1..Len(names) |-> Join(dir, names[k])]

\* the paths autoLoad tries for one workspace folder, in the order it tries them
WorkspaceCandidates(folder) ==
    JoinAll(folder, searchPaths)
    \o JoinAll(Join(folder, "data"), SelectSeq(DataDirNames, IsSpellCsv))
    \o <<Join(Join(folder, "vs_plugin"), "spells.csv")>>

bundledPaths(extPath) ==
    <<Join(extPath, "spells.csv"), Join(Join(extPath, "data"), "spells.csv")>>

Range(seq) == {seq[k] : k \in 1..Len(seq)}

AllPaths == Range(WorkspaceCandidates(WorkspaceFolder)) \cup Range(bundledPaths(ExtensionDir))

\* contents of spell files, as the lines content.split(/\r?\n/) yields
CsvMain == <<"id,name_lang", "133,Fireball", "2825,Haste">>
CsvHeaderOnly == <<"id,name">>
CsvNoNameColumn == <<"id,title", "133,Fireball">>
CsvFireOnly == <<"Name, ID", "\"Fireball\",133", "Haste,x", "">>

\* a file system: the file (NoFile when absent) at each path
FileSystem(files) ==
    [p \in AllPaths |-> IF p \in DOMAIN files THEN files[p] ELSE NoFile]

FsNone == FileSystem(<<>>)
FsMain == FileSystem([p \in {"/ws/spells.csv"} |-> CsvMain])
FsHeaderOnly == FileSystem([p \in {"/ws/spells.csv"} |-> CsvHeaderOnly])
FsData == FileSystem([p \in {"/ws/data/spells.csv"} |-> CsvFireOnly])
FsBundled ==
    FileSystem([p \in {"/ws/yaml/spells.csv", "/ext/data/spells.csv"} |->
                  IF p = "/ws/yaml/spells.csv" THEN CsvNoNameColumn ELSE CsvMain])

\* vscode.workspace.workspaceFolders: undefined, or the folders
NoWorkspace == [defined |-> FALSE, folders |-> <<>>]
OneFolder == [defined |-> TRUE, folders |-> <<WorkspaceFolder>>]

\* what isRotationYaml reads of a document besides its text
YamlDoc == [languageId |-> "yaml", fsPath |-> "/ws/yaml/rotation.yaml"]
LooseDoc == [languageId |-> "yaml", fsPath |-> "/ws/notes/rotation.yml"]

\* document.getText().includes(lit), lit holding no line break
TextIncludes(document, lit) == \E k \in 1..Len(document) : includes(document[k], lit)

isRotationYaml(info, document) ==
    IF info.languageId # "yaml" /\ info.languageId # "rotation-yaml" THEN FALSE
    ELSE \/ includes(info.fsPath, "yaml")
         \/ TextIncludes(document, "lists:")
         \/ TextIncludes(document, "actions:")

\* ------------------------------------------------------------------------
\* RotationHoverProvider
\* ------------------------------------------------------------------------

\* the expression dictionary: key, and the ExpressionInfo of the key (an
\* absent example is "", which the source tests as it tests undefined)
EXPRESSIONS ==
    <<[key |-> "energy", type |-> "resource",
       description |-> "Current energy value",
       example |-> "if=energy>=50"],
      [key |-> "energy.max", type |-> "resource",
       description |-> "Maximum energy",
       example |-> "if=energy=energy.max"],
      [key |-> "energy.deficit", type |-> "resource",
       description |-> "Energy deficit (max - current)",
       example |-> "if=energy.deficit<20"],
      [key |-> "energy.pct", type |-> "resource",
       description |-> "Energy percentage (0-100)",
       example |-> "if=energy.pct>50"],
      [key |-> "energy.regen", type |-> "resource",
       description |-> "Energy regeneration rate",
       example |-> "if=energy.regen>15"],
      [key |-> "energy.time_to_max", type |-> "resource",
       description |-> "Seconds until energy is full",
       example |-> "if=energy.time_to_max<3"],
      [key |-> "rage", type |-> "resource",
       description |-> "Current rage value",
       example |-> "if=rage>=30"],
      [key |-> "rage.max", type |-> "resource",
       description |-> "Maximum rage",
       example |-> "if=rage=rage.max"],
      [key |-> "rage.deficit", type |-> "resource",
       description |-> "Rage deficit",
       example |-> "if=rage.deficit<20"],
      [key |-> "runic_power", type |-> "resource",
       description |-> "Current runic power",
       example |-> "if=runic_power>=80"],
      [key |-> "runic_power.max", type |-> "resource",
       description |-> "Maximum runic power",
       example |-> ""],
      [key |-> "runic_power.deficit", type |-> "resource",
       description |-> "Runic power deficit",
       example |-> ""],
      [key |-> "rune", type |-> "resource",
       description |-> "Available rune count",
       example |-> "if=rune>=3"],
      [key |-> "focus", type |-> "resource",
       description |-> "Current focus value",
       example |-> "if=focus>=50"],
      [key |-> "focus.max", type |-> "resource",
       description |-> "Maximum focus",
       example |-> ""],
      [key |-> "focus.deficit", type |-> "resource",
       description |-> "Focus deficit",
       example |-> ""],
      [key |-> "focus.pct", type |-> "resource",
       description |-> "Focus percentage",
       example |-> ""],
      [key |-> "focus.regen", type |-> "resource",
       description |-> "Focus regeneration rate",
       example |-> ""],
      [key |-> "focus.time_to_max", type |-> "resource",
       description |-> "Seconds until focus is full",
       example |-> ""],
      [key |-> "mana", type |-> "resource",
       description |-> "Current mana value",
       example |-> "if=mana>=1000"],
      [key |-> "mana.max", type |-> "resource",
       description |-> "Maximum mana",
       example |-> ""],
      [key |-> "mana.deficit", type |-> "resource",
       description |-> "Mana deficit",
       example |-> ""],
      [key |-> "mana.pct", type |-> "resource",
       description |-> "Mana percentage",
       example |-> "if=mana.pct>30"],
      [key |-> "mana.regen", type |-> "resource",
       description |-> "Mana regeneration rate",
       example |-> ""],
      [key |-> "mana.time_to_max", type |-> "resource",
       description |-> "Seconds until mana is full",
       example |-> ""],
      [key |-> "combo_points", type |-> "resource",
       description |-> "Current combo points",
       example |-> "if=combo_points>=5"],
      [key |-> "combo_points.max", type |-> "resource",
       description |-> "Maximum combo points",
       example |-> ""],
      [key |-> "combo_points.deficit", type |-> "resource",
       description |-> "Combo points deficit",
       example |-> ""],
      [key |-> "soul_shards", type |-> "resource",
       description |-> "Current soul shards (Warlock)",
       example |-> ""],
      [key |-> "holy_power", type |-> "resource",
       description |-> "Current holy power (Paladin)",
       example |-> ""],
      [key |-> "chi", type |-> "resource",
       description |-> "Current chi (Monk)",
       example |-> ""],
      [key |-> "insanity", type |-> "resource",
       description |-> "Current insanity (Shadow Priest)",
       example |-> ""],
      [key |-> "stagger", type |-> "resource",
       description |-> "Current stagger amount (Brewmaster)",
       example |-> ""],
      [key |-> "stagger.pct", type |-> "resource",
       description |-> "Stagger as % of max health",
       example |-> "if=stagger.pct>60"],
      [key |-> "arcane_charges", type |-> "resource",
       description |-> "Current arcane charges (Arcane Mage)",
       example |-> ""],
      [key |-> "fury", type |-> "resource",
       description |-> "Current fury (Demon Hunter)",
       example |-> ""],
      [key |-> "pain", type |-> "resource",
       description |-> "Current pain (Vengeance DH)",
       example |-> ""],
      [key |-> "maelstrom", type |-> "resource",
       description |-> "Current maelstrom (Enhancement Shaman)",
       example |-> ""],
      [key |-> "astral_power", type |-> "resource",
       description |-> "Current astral power (Balance Druid)",
       example |-> ""],
      [key |-> "essence", type |-> "resource",
       description |-> "Current essence (Evoker)",
       example |-> ""],
      [key |-> "health", type |-> "health",
       description |-> "Player health percentage (0-100)",
       example |-> "if=health<50"],
      [key |-> "health.pct", type |-> "health",
       description |-> "Player health percentage",
       example |-> "if=health.pct<=30"],
      [key |-> "health.max", type |-> "health",
       description |-> "Player maximum health",
       example |-> ""],
      [key |-> "health.deficit", type |-> "health",
       description |-> "Player missing health amount",
       example |-> ""],
      [key |-> "player.health", type |-> "health",
       description |-> "Player health percentage",
       example |-> ""],
      [key |-> "player.health.pct", type |-> "health",
       description |-> "Player health percentage",
       example |-> ""],
      [key |-> "player.health.max", type |-> "health",
       description |-> "Player maximum health",
       example |-> ""],
      [key |-> "player.health.deficit", type |-> "health",
       description |-> "Player missing health",
       example |-> ""],
      [key |-> "target.health", type |-> "health",
       description |-> "Target health percentage",
       example |-> ""],
      [key |-> "target.health.pct", type |-> "health",
       description |-> "Target health percentage",
       example |-> "if=target.health.pct<=20"],
      [key |-> "target.time_to_die", type |-> "health",
       description |-> "Estimated seconds until target dies",
       example |-> "if=target.time_to_die>15"],
      [key |-> "time_to_die", type |-> "health",
       description |-> "Alias for target.time_to_die",
       example |-> ""],
      [key |-> "fight_remains", type |-> "health",
       description |-> "Estimated time remaining in fight",
       example |-> ""],
      [key |-> "focus.health", type |-> "health",
       description |-> "Focus target health percentage",
       example |-> ""],
      [key |-> "mouseover.health", type |-> "health",
       description |-> "Mouseover health percentage",
       example |-> ""],
      [key |-> "pet.health", type |-> "health",
       description |-> "Pet health percentage",
       example |-> "if=pet.health<40"],
      [key |-> "buff.SPELL.up", type |-> "buff",
       description |-> "Buff is active (1 if true, 0 if false)",
       example |-> "if=buff.bloodlust.up"],
      [key |-> "buff.SPELL.down", type |-> "buff",
       description |-> "Buff is NOT active",
       example |-> "if=buff.shield.down"],
      [key |-> "buff.SPELL.remains", type |-> "buff",
       description |-> "Time remaining in seconds",
       example |-> "if=buff.haste_buff.remains<5"],
      [key |-> "buff.SPELL.stack", type |-> "buff",
       description |-> "Current stack count",
       example |-> "if=buff.power_stacks.stack>=3"],
      [key |-> "buff.SPELL.duration", type |-> "buff",
       description |-> "Base duration of the buff",
       example |-> ""],
      [key |-> "buff.SPELL.refreshable", type |-> "buff",
       description |-> "Buff can be refreshed (pandemic window)",
       example |-> ""],
      [key |-> "buff.SPELL.react", type |-> "buff",
       description |-> "Buff is active (same as .up, for procs)",
       example |-> ""],
      [key |-> "debuff.SPELL.up", type |-> "debuff",
       description |-> "Debuff is active on target",
       example |-> "if=debuff.vulnerability.up"],
      [key |-> "debuff.SPELL.down", type |-> "debuff",
       description |-> "Debuff is NOT on target",
       example |-> "if=debuff.curse.down"],
      [key |-> "debuff.SPELL.remains", type |-> "debuff",
       description |-> "Time remaining",
       example |-> "if=debuff.poison.remains<3"],
      [key |-> "debuff.SPELL.stack", type |-> "debuff",
       description |-> "Stack count",
       example |-> "if=debuff.wound.stack<5"],
      [key |-> "debuff.SPELL.refreshable", type |-> "debuff",
       description |-> "Debuff can be refreshed",
       example |-> ""],
      [key |-> "debuff.SPELL.ticking", type |-> "debuff",
       description |-> "Debuff is active (alias of .up)",
       example |-> ""],
      [key |-> "dot.SPELL.ticking", type |-> "dot",
       description |-> "DoT is active",
       example |-> "if=dot.corruption.ticking"],
      [key |-> "dot.SPELL.remains", type |-> "dot",
       description |-> "DoT time remaining",
       example |-> "if=dot.corruption.remains<3"],
      [key |-> "dot.SPELL.refreshable", type |-> "dot",
       description |-> "DoT can be refreshed (pandemic)",
       example |-> ""],
      [key |-> "dot.SPELL.stack", type |-> "dot",
       description |-> "DoT stack count",
       example |-> ""],
      [key |-> "active_dot.SPELL", type |-> "dot",
       description |-> "Count of enemies with your DoT",
       example |-> "if=active_dot.corruption>=3"],
      [key |-> "cooldown.SPELL.ready", type |-> "cooldown",
       description |-> "Spell is ready (off cooldown)",
       example |-> "if=cooldown.big_damage.ready"],
      [key |-> "cooldown.SPELL.up", type |-> "cooldown",
       description |-> "Same as .ready",
       example |-> ""],
      [key |-> "cooldown.SPELL.down", type |-> "cooldown",
       description |-> "Spell is on cooldown",
       example |-> ""],
      [key |-> "cooldown.SPELL.remains", type |-> "cooldown",
       description |-> "Time until ready",
       example |-> "if=cooldown.burst.remains<5"],
      [key |-> "cooldown.SPELL.charges", type |-> "cooldown",
       description |-> "Current charge count",
       example |-> "if=cooldown.blink.charges>=1"],
      [key |-> "cooldown.SPELL.max_charges", type |-> "cooldown",
       description |-> "Maximum charges",
       example |-> ""],
      [key |-> "cooldown.SPELL.full_recharge_time", type |-> "cooldown",
       description |-> "Time until all charges restored",
       example |-> ""],
      [key |-> "cooldown.SPELL.charges_fractional", type |-> "cooldown",
       description |-> "Charges including partial progress",
       example |-> ""],
      [key |-> "usable.SPELL", type |-> "spell",
       description |-> "Spell is usable (resources + off CD)",
       example |-> "if=usable.expensive_ability"],
      [key |-> "range.SPELL.target", type |-> "range",
       description |-> "Spell is in range for target",
       example |-> "if=range.snipe.target"],
      [key |-> "range.SPELL.focus", type |-> "range",
       description |-> "Spell is in range for focus",
       example |-> ""],
      [key |-> "range.SPELL.mouseover", type |-> "range",
       description |-> "Spell is in range for mouseover",
       example |-> ""],
      [key |-> "talent.TALENT", type |-> "talent",
       description |-> "Talent is selected (1 if true)",
       example |-> "if=talent.improved_spell"],
      [key |-> "talent.TALENT.enabled", type |-> "talent",
       description |-> "Talent is selected",
       example |-> ""],
      [key |-> "talent.TALENT.rank", type |-> "talent",
       description |-> "Talent rank (0 if not selected)",
       example |-> "if=talent.power_talent.rank>=2"],
      [key |-> "action.SPELL.charges", type |-> "action",
       description |-> "Action charges",
       example |-> ""],
      [key |-> "action.SPELL.cast_time", type |-> "action",
       description |-> "Cast time in seconds",
       example |-> ""],
      [key |-> "action.SPELL.execute_time", type |-> "action",
       description |-> "Max of cast_time and GCD",
       example |-> ""],
      [key |-> "gcd", type |-> "gcd",
       description |-> "Current GCD duration",
       example |-> "if=gcd<1.2"],
      [key |-> "gcd.max", type |-> "gcd",
       description |-> "Maximum GCD (usually 1.5s)",
       example |-> ""],
      [key |-> "gcd.remains", type |-> "gcd",
       description |-> "Time until GCD expires",
       example |-> "if=gcd.remains<0.2"],
      [key |-> "player.gcd", type |-> "gcd",
       description |-> "Current GCD duration",
       example |-> ""],
      [key |-> "player.gcd.remains", type |-> "gcd",
       description |-> "Time until GCD expires",
       example |-> ""],
      [key |-> "prev_gcd.1.SPELL", type |-> "prev",
       description |-> "Last GCD was this spell",
       example |-> "if=prev_gcd.1.setup_spell"],
      [key |-> "prev_gcd.2.SPELL", type |-> "prev",
       description |-> "Two GCDs ago was this spell",
       example |-> ""],
      [key |-> "prev_gcd.3.SPELL", type |-> "prev",
       description |-> "Three GCDs ago was this spell",
       example |-> ""],
      [key |-> "player.dead", type |-> "state",
       description |-> "Player is dead",
       example |-> ""],
      [key |-> "player.alive", type |-> "state",
       description |-> "Player is alive",
       example |-> ""],
      [key |-> "player.moving", type |-> "state",
       description |-> "Player is moving",
       example |-> "if=!player.moving"],
      [key |-> "player.moving.time", type |-> "state",
       description |-> "Seconds player has been moving",
       example |-> ""],
      [key |-> "player.standing", type |-> "state",
       description |-> "Player is standing still",
       example |-> ""],
      [key |-> "player.standing.time", type |-> "state",
       description |-> "Seconds standing still",
       example |-> ""],
      [key |-> "player.mounted", type |-> "state",
       description |-> "Player is mounted",
       example |-> ""],
      [key |-> "player.in_vehicle", type |-> "state",
       description |-> "Player is in a vehicle",
       example |-> ""],
      [key |-> "player.casting", type |-> "state",
       description |-> "Player is casting",
       example |-> "if=!player.casting"],
      [key |-> "player.channeling", type |-> "state",
       description |-> "Player is channeling",
       example |-> ""],
      [key |-> "player.casting.spell", type |-> "state",
       description |-> "Currently casting spell ID",
       example |-> ""],
      [key |-> "player.casting.remains", type |-> "state",
       description |-> "Time remaining on cast",
       example |-> ""],
      [key |-> "player.casting.elapsed", type |-> "state",
       description |-> "Time spent casting",
       example |-> ""],
      [key |-> "player.combat", type |-> "state",
       description |-> "Player is in combat",
       example |-> ""],
      [key |-> "player.combat.time", type |-> "state",
       description |-> "Time in combat (seconds)",
       example |-> "if=player.combat.time<5"],
      [key |-> "player.empower_stage", type |-> "state",
       description |-> "Evoker empower stage (1-4)",
       example |-> "if=player.empower_stage>=2"],
      [key |-> "player.burst.active", type |-> "state",
       description |-> "Any burst buff is active",
       example |-> "if=player.burst.active"],
      [key |-> "player.burst.count", type |-> "state",
       description |-> "Number of active burst buffs",
       example |-> ""],
      [key |-> "player.stunned", type |-> "cc",
       description |-> "Player is stunned",
       example |-> "if=player.stunned"],
      [key |-> "player.stunned.remains", type |-> "cc",
       description |-> "Stun duration remaining",
       example |-> ""],
      [key |-> "player.rooted", type |-> "cc",
       description |-> "Player is rooted",
       example |-> ""],
      [key |-> "player.rooted.remains", type |-> "cc",
       description |-> "Root duration remaining",
       example |-> ""],
      [key |-> "player.feared", type |-> "cc",
       description |-> "Player is feared",
       example |-> ""],
      [key |-> "player.silenced", type |-> "cc",
       description |-> "Player is silenced",
       example |-> ""],
      [key |-> "player.incapacitated", type |-> "cc",
       description |-> "Player is incapacitated",
       example |-> ""],
      [key |-> "player.charmed", type |-> "cc",
       description |-> "Player is mind controlled",
       example |-> ""],
      [key |-> "player.disarmed", type |-> "cc",
       description |-> "Player is disarmed",
       example |-> ""],
      [key |-> "player.cc", type |-> "cc",
       description |-> "Player cannot act (stunned/feared/etc)",
       example |-> "if=player.cc"],
      [key |-> "player.tank", type |-> "role",
       description |-> "Player is a tank",
       example |-> "if=player.tank"],
      [key |-> "player.healer", type |-> "role",
       description |-> "Player is a healer",
       example |-> ""],
      [key |-> "player.dps", type |-> "role",
       description |-> "Player is DPS",
       example |-> ""],
      [key |-> "player.melee", type |-> "role",
       description |-> "Player uses melee attacks",
       example |-> ""],
      [key |-> "player.ranged", type |-> "role",
       description |-> "Player uses ranged attacks",
       example |-> ""],
      [key |-> "player.evoker", type |-> "role",
       description |-> "Player is an Evoker",
       example |-> ""],
      [key |-> "player.haste_pct", type |-> "stat",
       description |-> "Haste percentage",
       example |-> "if=player.haste_pct>=30"],
      [key |-> "player.haste", type |-> "stat",
       description |-> "Haste percentage (alias)",
       example |-> ""],
      [key |-> "player.crit_pct", type |-> "stat",
       description |-> "Critical strike percentage",
       example |-> ""],
      [key |-> "player.crit", type |-> "stat",
       description |-> "Critical strike percentage (alias)",
       example |-> ""],
      [key |-> "player.versa_pct", type |-> "stat",
       description |-> "Versatility percentage",
       example |-> ""],
      [key |-> "player.versatility", type |-> "stat",
       description |-> "Versatility percentage (alias)",
       example |-> ""],
      [key |-> "player.mastery_pct", type |-> "stat",
       description |-> "Mastery percentage",
       example |-> ""],
      [key |-> "player.mastery", type |-> "stat",
       description |-> "Mastery percentage (alias)",
       example |-> ""],
      [key |-> "player.indungeon", type |-> "zone",
       description |-> "Player is in a dungeon",
       example |-> ""],
      [key |-> "player.inraid", type |-> "zone",
       description |-> "Player is in a raid",
       example |-> ""],
      [key |-> "player.inpvecontent", type |-> "zone",
       description |-> "In dungeon, raid, or delve",
       example |-> ""],
      [key |-> "player.inmythicplus", type |-> "zone",
       description |-> "In active M+ keystone",
       example |-> "if=player.inmythicplus"],
      [key |-> "player.inarena", type |-> "zone",
       description |-> "In arena",
       example |-> ""],
      [key |-> "player.inpvp", type |-> "zone",
       description |-> "In battleground",
       example |-> ""],
      [key |-> "player.ininstancedpvp", type |-> "zone",
       description |-> "In arena or battleground",
       example |-> ""],
      [key |-> "player.indelve", type |-> "zone",
       description |-> "In a delve",
       example |-> ""],
      [key |-> "player.inscenario", type |-> "zone",
       description |-> "In a scenario",
       example |-> ""],
      [key |-> "player.keystonelevel", type |-> "zone",
       description |-> "Current M+ keystone level",
       example |-> "if=player.keystonelevel>=15"],
      [key |-> "player.boss_fight", type |-> "zone",
       description |-> "Boss unit frames exist",
       example |-> ""],
      [key |-> "player.has_magic_debuff", type |-> "debuff",
       description |-> "Player has any magic debuff",
       example |-> ""],
      [key |-> "player.has_curse", type |-> "debuff",
       description |-> "Player has any curse debuff",
       example |-> ""],
      [key |-> "player.has_disease", type |-> "debuff",
       description |-> "Player has any disease debuff",
       example |-> ""],
      [key |-> "player.has_poison", type |-> "debuff",
       description |-> "Player has any poison debuff",
       example |-> ""],
      [key |-> "target.exists", type |-> "target",
       description |-> "Target exists",
       example |-> "if=target.exists"],
      [key |-> "target.alive", type |-> "target",
       description |-> "Target is alive",
       example |-> ""],
      [key |-> "target.dead", type |-> "target",
       description |-> "Target is dead",
       example |-> ""],
      [key |-> "target.enemy", type |-> "target",
       description |-> "Target is an enemy",
       example |-> ""],
      [key |-> "target.friendly", type |-> "target",
       description |-> "Target is friendly",
       example |-> ""],
      [key |-> "target.boss", type |-> "target",
       description |-> "Target is a boss",
       example |-> "if=target.boss"],
      [key |-> "target.range", type |-> "target",
       description |-> "Distance to target in yards",
       example |-> "if=target.range<8"],
      [key |-> "target.moving", type |-> "target",
       description |-> "Target is moving",
       example |-> ""],
      [key |-> "target.casting", type |-> "target",
       description |-> "Target is casting",
       example |-> ""],
      [key |-> "target.channeling", type |-> "target",
       description |-> "Target is channeling",
       example |-> ""],
      [key |-> "target.casting.spell", type |-> "target",
       description |-> "Target casting spell ID",
       example |-> ""],
      [key |-> "target.casting.remains", type |-> "target",
       description |-> "Target cast time remaining",
       example |-> ""],
      [key |-> "target.casting.elapsed", type |-> "target",
       description |-> "Target cast time elapsed",
       example |-> ""],
      [key |-> "target.casting.interruptible", type |-> "target",
       description |-> "Target cast can be interrupted",
       example |-> "if=target.casting.interruptible"],
      [key |-> "target.casting.important", type |-> "target",
       description |-> "Target cast is in _interrupts.yaml",
       example |-> ""],
      [key |-> "target.casting.targeting_me", type |-> "target",
       description |-> "Target cast is targeting player",
       example |-> ""],
      [key |-> "target.valid", type |-> "target",
       description |-> "Comprehensive target check (exists, enemy, alive, combat)",
       example |-> ""],
      [key |-> "target.npcid", type |-> "target",
       description |-> "NPC ID from GUID",
       example |-> ""],
      [key |-> "target.bypass_combat", type |-> "target",
       description |-> "NPC bypasses combat checks (from _npcdata.yaml)",
       example |-> ""],
      [key |-> "target.should_stun", type |-> "target",
       description |-> "NPC should be stunned (from _npcdata.yaml)",
       example |-> ""],
      [key |-> "target.should_slow", type |-> "target",
       description |-> "NPC should be slowed (from _npcdata.yaml)",
       example |-> ""],
      [key |-> "target.has_stealable", type |-> "target",
       description |-> "Target has any stealable buff",
       example |-> ""],
      [key |-> "target.has_magic_buff", type |-> "target",
       description |-> "Target has any magic buff",
       example |-> ""],
      [key |-> "target.has_enrage", type |-> "target",
       description |-> "Target has an enrage effect",
       example |-> ""],
      [key |-> "focus.exists", type |-> "unit",
       description |-> "Focus target exists",
       example |-> ""],
      [key |-> "focus.alive", type |-> "unit",
       description |-> "Focus is alive",
       example |-> ""],
      [key |-> "focus.enemy", type |-> "unit",
       description |-> "Focus is an enemy",
       example |-> ""],
      [key |-> "focus.friendly", type |-> "unit",
       description |-> "Focus is friendly",
       example |-> ""],
      [key |-> "focus.range", type |-> "unit",
       description |-> "Distance to focus",
       example |-> ""],
      [key |-> "focus.casting", type |-> "unit",
       description |-> "Focus is casting",
       example |-> ""],
      [key |-> "focus.casting.interruptible", type |-> "unit",
       description |-> "Focus cast can be interrupted",
       example |-> ""],
      [key |-> "focus.casting.remains", type |-> "unit",
       description |-> "Focus cast time remaining",
       example |-> ""],
      [key |-> "mouseover.exists", type |-> "unit",
       description |-> "Mouseover unit exists",
       example |-> ""],
      [key |-> "mouseover.alive", type |-> "unit",
       description |-> "Mouseover is alive",
       example |-> ""],
      [key |-> "mouseover.enemy", type |-> "unit",
       description |-> "Mouseover is an enemy",
       example |-> ""],
      [key |-> "mouseover.friendly", type |-> "unit",
       description |-> "Mouseover is friendly",
       example |-> ""],
      [key |-> "mouseover.health.pct", type |-> "unit",
       description |-> "Mouseover health percentage",
       example |-> ""],
      [key |-> "mouseover.range", type |-> "unit",
       description |-> "Distance to mouseover",
       example |-> ""],
      [key |-> "mouseover.casting", type |-> "unit",
       description |-> "Mouseover is casting",
       example |-> ""],
      [key |-> "mouseover.casting.interruptible", type |-> "unit",
       description |-> "Mouseover cast can be interrupted",
       example |-> ""],
      [key |-> "pet.exists", type |-> "pet",
       description |-> "Pet exists",
       example |-> ""],
      [key |-> "pet.alive", type |-> "pet",
       description |-> "Pet is alive",
       example |-> ""],
      [key |-> "pet.nearby_enemies", type |-> "pet",
       description |-> "Enemies within 8 yards of pet",
       example |-> ""],
      [key |-> "active_enemies", type |-> "combat",
       description |-> "Enemies in combat range",
       example |-> "if=active_enemies>=3"],
      [key |-> "spell_targets", type |-> "combat",
       description |-> "Same as active_enemies",
       example |-> ""],
      [key |-> "enemies.8y", type |-> "combat",
       description |-> "Enemies within 8 yards",
       example |-> ""],
      [key |-> "enemies.15y", type |-> "combat",
       description |-> "Enemies within 15 yards",
       example |-> ""],
      [key |-> "enemies.40y", type |-> "combat",
       description |-> "Enemies within 40 yards",
       example |-> ""],
      [key |-> "enemies.combat.8y", type |-> "combat",
       description |-> "Enemies in combat within 8y",
       example |-> ""],
      [key |-> "enemies.combat.15y", type |-> "combat",
       description |-> "Enemies in combat within 15y",
       example |-> ""],
      [key |-> "enemies.combat.40y", type |-> "combat",
       description |-> "Enemies in combat within 40y",
       example |-> ""],
      [key |-> "combat.enemies", type |-> "combat",
       description |-> "Enemies in combat (deprecated)",
       example |-> ""],
      [key |-> "combat.enemies.8y", type |-> "combat",
       description |-> "Enemies in combat within 8y",
       example |-> ""],
      [key |-> "group.lowest.health.pct", type |-> "group",
       description |-> "Lowest member health %",
       example |-> "if=group.lowest.health.pct<50"],
      [key |-> "group.lowest.range", type |-> "group",
       description |-> "Range to lowest member",
       example |-> ""],
      [key |-> "group.tanks.lowest.health.pct", type |-> "group",
       description |-> "Lowest tank health %",
       example |-> ""],
      [key |-> "group.healers.lowest.health.pct", type |-> "group",
       description |-> "Lowest healer health %",
       example |-> ""],
      [key |-> "group.dps.lowest.health.pct", type |-> "group",
       description |-> "Lowest DPS health %",
       example |-> ""],
      [key |-> "group.under_pct_30", type |-> "group",
       description |-> "Members under 30% health",
       example |-> ""],
      [key |-> "group.under_pct_50", type |-> "group",
       description |-> "Members under 50% health",
       example |-> ""],
      [key |-> "group.under_pct_75", type |-> "group",
       description |-> "Members under 75% health",
       example |-> ""],
      [key |-> "group.under_pct_80", type |-> "group",
       description |-> "Members under 80% health",
       example |-> ""],
      [key |-> "group.in_range_10", type |-> "group",
       description |-> "Members within 10 yards",
       example |-> ""],
      [key |-> "group.in_range_30", type |-> "group",
       description |-> "Members within 30 yards",
       example |-> ""],
      [key |-> "group.in_range_40", type |-> "group",
       description |-> "Members within 40 yards",
       example |-> ""],
      [key |-> "totem.SPELL.up", type |-> "totem",
       description |-> "Totem is active",
       example |-> "if=totem.fire_elemental.up"],
      [key |-> "totem.SPELL.remains", type |-> "totem",
       description |-> "Time until totem expires",
       example |-> ""],
      [key |-> "trinket_1.ready", type |-> "equipment",
       description |-> "Trinket 1 is off cooldown",
       example |-> ""],
      [key |-> "trinket_1.cd", type |-> "equipment",
       description |-> "Trinket 1 cooldown remaining",
       example |-> ""],
      [key |-> "trinket_1.id", type |-> "equipment",
       description |-> "Trinket 1 item ID",
       example |-> ""],
      [key |-> "trinket_1.usable", type |-> "equipment",
       description |-> "Trinket 1 is usable",
       example |-> ""],
      [key |-> "trinket_1.sync", type |-> "equipment",
       description |-> "Trinket 1 ready + burst check",
       example |-> "if=trinket_1.sync"],
      [key |-> "trinket_2.ready", type |-> "equipment",
       description |-> "Trinket 2 is off cooldown",
       example |-> ""],
      [key |-> "trinket_2.cd", type |-> "equipment",
       description |-> "Trinket 2 cooldown remaining",
       example |-> ""],
      [key |-> "trinket_2.id", type |-> "equipment",
       description |-> "Trinket 2 item ID",
       example |-> ""],
      [key |-> "trinket_2.usable", type |-> "equipment",
       description |-> "Trinket 2 is usable",
       example |-> ""],
      [key |-> "trinket_2.sync", type |-> "equipment",
       description |-> "Trinket 2 ready + burst check",
       example |-> ""],
      [key |-> "main_hand.2h", type |-> "equipment",
       description |-> "1 if using 2H weapon",
       example |-> ""],
      [key |-> "mainhand.enchant.up", type |-> "equipment",
       description |-> "Main hand has temp enchant",
       example |-> ""],
      [key |-> "mainhand.enchant.remains", type |-> "equipment",
       description |-> "Main hand enchant time left",
       example |-> ""],
      [key |-> "offhand.enchant.up", type |-> "equipment",
       description |-> "Off hand has temp enchant",
       example |-> ""],
      [key |-> "offhand.enchant.remains", type |-> "equipment",
       description |-> "Off hand enchant time left",
       example |-> ""],
      [key |-> "set_bonus.TIER_2pc", type |-> "equipment",
       description |-> "Have 2-piece tier bonus",
       example |-> ""],
      [key |-> "set_bonus.TIER_4pc", type |-> "equipment",
       description |-> "Have 4-piece tier bonus",
       example |-> ""],
      [key |-> "healthstone.ready", type |-> "consumable",
       description |-> "Healthstone is ready",
       example |-> ""],
      [key |-> "healthstone.cd", type |-> "consumable",
       description |-> "Healthstone cooldown",
       example |-> ""],
      [key |-> "health_potion.ready", type |-> "consumable",
       description |-> "Health potion is ready",
       example |-> ""],
      [key |-> "mana_potion.ready", type |-> "consumable",
       description |-> "Mana potion is ready",
       example |-> ""],
      [key |-> "combat_potion.ready", type |-> "consumable",
       description |-> "Combat potion is ready",
       example |-> ""],
      [key |-> "interrupts.target.ready", type |-> "interrupt",
       description |-> "Target casting interruptible spell",
       example |-> ""],
      [key |-> "interrupts.target.stun.ready", type |-> "interrupt",
       description |-> "Target casting stun-able spell",
       example |-> ""],
      [key |-> "interrupts.focus.ready", type |-> "interrupt",
       description |-> "Focus casting interruptible spell",
       example |-> ""],
      [key |-> "interrupts.8y.ready", type |-> "interrupt",
       description |-> "Any enemy in 8y casting interruptible",
       example |-> ""],
      [key |-> "interrupts.40y.ready", type |-> "interrupt",
       description |-> "Any enemy in 40y casting interruptible",
       example |-> ""],
      [key |-> "interrupts.8y.count", type |-> "interrupt",
       description |-> "Count of enemies casting in 8y",
       example |-> ""],
      [key |-> "defensives.ready", type |-> "defensive",
       description |-> "Enemy casting dangerous spell",
       example |-> ""],
      [key |-> "defensives.ready.aoe", type |-> "defensive",
       description |-> "Enemy casting AoE spell",
       example |-> ""],
      [key |-> "reflectable.ready", type |-> "reflect",
       description |-> "Enemy casting reflectable spell",
       example |-> ""],
      [key |-> "state.rotation", type |-> "state",
       description |-> "Rotation enabled/disabled",
       example |-> ""],
      [key |-> "state.cds", type |-> "state",
       description |-> "Cooldowns enabled/disabled",
       example |-> "if=state.cds"],
      [key |-> "state.aoe", type |-> "state",
       description |-> "AOE mode enabled/disabled",
       example |-> ""],
      [key |-> "state.blocked_inputs", type |-> "state",
       description |-> "Input blocking enabled",
       example |-> ""],
      [key |-> "var.VARNAME", type |-> "variable",
       description |-> "User-defined variable value",
       example |-> "if=var.pooling"],
      [key |-> "config.SETTING", type |-> "config",
       description |-> "User config setting value",
       example |-> "if=config.use_aoe"],
      [key |-> "settings.SETTING", type |-> "config",
       description |-> "Alias for config.SETTING",
       example |-> ""],
      [key |-> "true", type |-> "literal",
       description |-> "Always true (1)",
       example |-> ""],
      [key |-> "false", type |-> "literal",
       description |-> "Always false (0)",
       example |-> ""]>>

\* the step options: key, description and values (<<>>: none given)
STEP_OPTIONS ==
    <<[key |-> "range_check",
       description |-> "Control range validation for this action",
       values |-> <<"target", "mouseover", "focus", "mob_count_8y", "mob_count_40y", "none">>],
      [key |-> "casting_check",
       description |-> "Only cast while player is casting specific spell",
       values |-> <<"none", "any", "SPELL_ID", "spell_name">>],
      [key |-> "cast_remains",
       description |-> "Only during last X seconds of current cast",
       values |-> <<>>],
      [key |-> "channel_remains",
       description |-> "Only during last X seconds of current channel",
       values |-> <<>>],
      [key |-> "interrupt",
       description |-> "Allow this action to interrupt current cast",
       values |-> <<"true", "false">>],
      [key |-> "ignore_cooldown",
       description |-> "Skip cooldown check for this spell",
       values |-> <<"true", "false">>],
      [key |-> "ignore_usable",
       description |-> "Skip usability check for this spell",
       values |-> <<"true", "false">>],
      [key |-> "ignore_movement",
       description |-> "Allow casting while moving (for spells like Scorch)",
       values |-> <<"true", "false">>],
      [key |-> "hotkey",
       description |-> "Override the virtual key code for this action",
       values |-> <<>>],
      [key |-> "modifier",
       description |-> "Modifier key (16=Shift, 17=Ctrl, 18=Alt)",
       values |-> <<"16", "17", "18">>],
      [key |-> "override",
       description |-> "Use another spell's keybind",
       values |-> <<>>],
      [key |-> "delay",
       description |-> "Minimum ms between presses for this spell",
       values |-> <<>>],
      [key |-> "global_delay",
       description |-> "Set global delay until channel is true",
       values |-> <<>>],
      [key |-> "target",
       description |-> "Direct targeting (lowest, tanks.lowest, etc)",
       values |-> <<"lowest", "tanks.lowest", "healers.lowest", "dps.lowest">>],
      [key |-> "cycle",
       description |-> "Cycle through group members",
       values |-> <<"members", "tanks", "healers", "dps">>]>>

\* the special actions: key and description
SPECIAL_ACTIONS ==
    <<[key |-> "trinket_1", description |-> "Use trinket in slot 1"],
      [key |-> "trinket_2", description |-> "Use trinket in slot 2"],
      [key |-> "weapon_onuse", description |-> "Use weapon on-use effect"],
      [key |-> "wrist_onuse", description |-> "Use wrist on-use effect"],
      [key |-> "helm_onuse", description |-> "Use helm on-use effect"],
      [key |-> "cloak_onuse", description |-> "Use cloak on-use effect"],
      [key |-> "belt_onuse", description |-> "Use belt on-use effect"],
      [key |-> "healthstone", description |-> "Use healthstone"],
      [key |-> "health_potion", description |-> "Use health potion"],
      [key |-> "mana_potion", description |-> "Use mana potion"],
      [key |-> "combat_potion", description |-> "Use combat/DPS potion"],
      [key |-> "augment_rune", description |-> "Use augment rune"],
      [key |-> "target_enemy", description |-> "Target nearest attackable enemy"],
      [key |-> "target_mouseover", description |-> "Target current mouseover unit"],
      [key |-> "attack_target", description |-> "Start auto-attacking target"],
      [key |-> "interact_target", description |-> "Interact with target (loot, talk)"],
      [key |-> "interact_mouseover", description |-> "Interact with mouseover unit"],
      [key |-> "loot_a_rang", description |-> "Use Loot-A-Rang"],
      [key |-> "return", description |-> "Stop rotation evaluation"],
      [key |-> "stop_casting", description |-> "Cancel current cast"],
      [key |-> "queue_spell", description |-> "Cast spell from Lua addon queue"],
      [key |-> "call_action_list", description |-> "Call another action list"]>>

\* the expressions that read differently on a line with cycle=
CYCLE_CONTEXT_EXPRESSIONS ==
    <<[key |-> "health.current", type |-> "cycle",
       description |-> "Current cycle member health value",
       example |-> "if=cycle.health.current<200000"],
      [key |-> "health.max", type |-> "cycle",
       description |-> "Current cycle member max health",
       example |-> "if=cycle.health.max>500000"],
      [key |-> "health.pct", type |-> "cycle",
       description |-> "Current cycle member health percentage",
       example |-> "if=cycle.health.pct<=30"],
      [key |-> "health.deficit", type |-> "cycle",
       description |-> "Current cycle member missing health amount",
       example |-> "if=cycle.health.deficit>50000"],
      [key |-> "range", type |-> "cycle",
       description |-> "Range to current cycle member in yards",
       example |-> "if=cycle.range<=40"],
      [key |-> "dead", type |-> "cycle",
       description |-> "Current cycle member is dead",
       example |-> "if=!dead"]>>

\* table[key] is not undefined
Defined(table, key) == \E i \in 1..Len(table) : table[i].key = key

\* table[key], for a key the table has
Lookup(table, key) == table[CHOOSE i \in 1..Len(table) : table[i].key = key]

\* the parts of s between the occurrences of the character sep
RECURSIVE SplitOn(_, _, _, _)
SplitOn(s, sep, i, cur) ==
    IF i > Len(s) THEN <<cur>>
    ELSE IF Ch(s, i) = sep THEN <<cur>> \o SplitOn(s, sep, i + 1, "")
    ELSE SplitOn(s, sep, i + 1, cur \o Ch(s, i))

\* the parts of a token between its dots: \w matches no dot, so each (\w+)
\* of a pattern of matchTemplate is one whole part
Segments(word) == SplitOn(word, ".", 1, "")

\* /^[set]+$/.test(s)
AllIn(s, set) == Len(s) > 0 /\ \A i \in 1..Len(s) : Ch(s, i) \in set

\* the pieces of a pattern: a literal, an alternation of literals, \w+, \d+
Lit(s) == [class |-> "", among |-> {s}]
OneOf(S) == [class |-> "", among |-> S]
Name == [class |-> "w", among |-> {}]
Digits == [class |-> "d", among |-> {}]

Fits(piece, s) ==
    IF piece.class = "w" THEN AllIn(s, WordSet)
    ELSE IF piece.class = "d" THEN AllIn(s, DigitSet)
    ELSE s \in piece.among

\* word.match(/^piece\.piece\. ... $/) is not null, seg being the parts of word
Match(seg, pieces) ==
    /\ Len(seg) = Len(pieces)
    /\ \A k \in 1..Len(pieces) : Fits(pieces[k], seg[k])

\* a part f(arg) of the function-call syntax: f and arg, arg matching \w+
IsCall(s) ==
    /\ Len(s) >= 3
    /\ Ch(s, Len(s)) = ")"
    /\ includes(s, "(")
    /\ AllIn(Slice(s, indexOf(s, "(") + 2, Len(s) - 1), WordSet)

CallFn(s) == Slice(s, 1, indexOf(s, "("))
CallArg(s) == Slice(s, indexOf(s, "(") + 2, Len(s) - 1)

\* vscode.Hover over a MarkdownString: the strings appended to it, in order,
\* the backquote of Markdown written as an apostrophe; undefined is the
\* hover without any
NoHover == <<>>

\* MarkdownString.appendCodeblock(code, 'yaml')
Codeblock(code) == "\n'''yaml\n" \o code \o "\n'''\n"

\* the closing note of a hover in cycle context (its warning sign left out)
CycleNote ==
    "\n\n *This expression is context-sensitive because 'cycle=' is present on this line.*"

ExampleOf(info) ==
    IF info.example # "" THEN <<"\n\n**Example:**\n", Codeblock(info.example)>>
    ELSE <<>>

createExpressionHover(name, info) ==
    <<"**" \o name \o "**\n\n",
      "*Type:* '" \o info.type \o "'\n\n",
      info.description>> \o ExampleOf(info)

createCycleContextHover(name, info) ==
    <<"**" \o name \o "** *(cycle context)*\n\n",
      "*Type:* '" \o info.type \o "'\n\n",
      info.description,
      CycleNote>> \o ExampleOf(info)

\* info.values, each value between backticks, joined by a comma and a space
RECURSIVE QuotedValues(_, _)
QuotedValues(values, k) ==
    IF k > Len(values) THEN ""
    ELSE (IF k > 1 THEN ", " ELSE "") \o "'" \o values[k] \o "'"
         \o QuotedValues(values, k + 1)

createStepOptionHover(name, info) ==
    <<"**" \o name \o "**\n\n", info.description>>
    \o (IF info.values # <<>>
        THEN <<"\n\n**Values:** " \o QuotedValues(info.values, 1)>>
        ELSE <<>>)

createActionHover(name, description) ==
    <<"**" \o name \o "** *(Special Action)*\n\n", description>>

\* EXPRESSIONS[templateKeyAny] || EXPRESSIONS[templateKey] is not undefined
AnyKnown(family, prop) ==
    \/ Defined(EXPRESSIONS, family \o ".SPELL." \o prop \o ".any")
    \/ Defined(EXPRESSIONS, family \o ".SPELL." \o prop)

\* EXPRESSIONS[templateKeyAny] || EXPRESSIONS[templateKey]
AnyInfo(family, prop) ==
    IF Defined(EXPRESSIONS, family \o ".SPELL." \o prop \o ".any")
    THEN Lookup(EXPRESSIONS, family \o ".SPELL." \o prop \o ".any")
    ELSE Lookup(EXPRESSIONS, family \o ".SPELL." \o prop)

\* the hover of family.SPELL.property.any, what being its line of text
AuraAnyHover(family, spell, prop, what) ==
    <<"**" \o family \o "." \o spell \o "." \o prop \o ".any**\n\n",
      "Check '" \o prop \o "' property of " \o what \o "\n\n",
      AnyInfo(family, prop).description>>

\* the hover of family.SPELL.property with the two captures taken in the
\* wrong order
AuraHoverSwapped(family, spell, prop, what) ==
    <<"**" \o family \o "." \o prop \o "." \o spell \o "**\n\n",
      "Check '" \o spell \o "' property of " \o what \o "\n\n",
      Lookup(EXPRESSIONS, family \o ".SPELL." \o prop).description>>

\* the hover of family.SPELL.property, what being its line of text
AuraHover(family, spell, prop, what) ==
    <<"**" \o family \o "." \o spell \o "." \o prop \o "**\n\n",
      "Check '" \o prop \o "' property of " \o what \o "\n\n",
      Lookup(EXPRESSIONS, family \o ".SPELL." \o prop).description>>

\* the hover of buff.SPELL.property on a line with cycle=
CycleBuffHover(spell, prop) ==
    <<"**buff." \o spell \o "." \o prop \o "** *(cycle context)*\n\n",
      "Check '" \o prop \o "' property of player-applied buff '" \o spell
          \o "' on **current cycle member**\n\n",
      Lookup(EXPRESSIONS, "buff.SPELL." \o prop).description,
      CycleNote>>

\* matchTemplate: buff, debuff, dot, cooldown and totem, seg being the
\* parts of word; NoHover when none of them returns
AuraTemplates(seg, hasCycleContext) ==
    IF Match(seg, <<Lit("buff"), Name, Name, Lit("any")>>) /\ AnyKnown("buff", seg[3])
    THEN AuraAnyHover("buff", seg[2], seg[3],
                      "buff '" \o seg[2] \o "' from any source")
    ELSE IF Match(seg, <<Lit("buff"), Name, Name>>)
            /\ Defined(EXPRESSIONS, "buff.SPELL." \o seg[3])
    THEN IF hasCycleContext THEN CycleBuffHover(seg[2], seg[3])
         ELSE AuraHover("buff", seg[2], seg[3],
                        "player-applied buff '" \o seg[2]
                            \o "' (use '.any' for any source)")
    ELSE IF Match(seg, <<Lit("debuff"), Name, Name, Lit("any")>>)
            /\ AnyKnown("debuff", seg[3])
    THEN AuraAnyHover("debuff", seg[2], seg[3],
                      "debuff '" \o seg[2] \o "' on target from any source")
    ELSE IF Match(seg, <<Lit("debuff"), Name, Name>>)
            /\ Defined(EXPRESSIONS, "debuff.SPELL." \o seg[3])
    THEN AuraHover("debuff", seg[2], seg[3],
                   "player-applied debuff '" \o seg[2]
                       \o "' on target (use '.any' for any source)")
    ELSE IF Match(seg, <<Lit("dot"), Name, Name, Lit("any")>>) /\ AnyKnown("dot", seg[3])
    THEN AuraAnyHover("dot", seg[2], seg[3],
                      "DoT '" \o seg[2] \o "' from any source")
    ELSE IF Match(seg, <<Lit("dot"), Name, Name>>)
            /\ Defined(EXPRESSIONS, "dot.SPELL." \o seg[3])
    THEN AuraHover("dot", seg[2], seg[3],
                   "DoT '" \o seg[2] \o "' (use '.any' for any source)")
    ELSE IF Match(seg, <<Lit("cooldown"), Name, Name>>)
            /\ Defined(EXPRESSIONS, "cooldown.SPELL." \o seg[3])
    THEN AuraHover("cooldown", seg[2], seg[3], "'" \o seg[2] \o "' cooldown")
    ELSE IF Match(seg, <<Lit("totem"), Name, Name>>)
            /\ Defined(EXPRESSIONS, "totem.SPELL." \o seg[3])
    THEN AuraHover("totem", seg[2], seg[3], "totem '" \o seg[2] \o "'")
    ELSE NoHover

\* if (EXPRESSIONS[templateKey]) md.appendMarkdown(EXPRESSIONS[templateKey].description)
DescriptionIfKnown(templateKey) ==
    IF Defined(EXPRESSIONS, templateKey)
    THEN <<Lookup(EXPRESSIONS, templateKey).description>>
    ELSE <<>>

\* matchTemplate: talent, prev_gcd, active_dot, nameplates, usable, var,
\* config and settings
NameTemplates(seg) ==
    IF Match(seg, <<Lit("talent"), Name>>)
    THEN <<"**talent." \o seg[2] \o "**\n\n",
           "Returns 1 if talent '" \o seg[2] \o "' is selected, 0 otherwise">>
    ELSE IF Match(seg, <<Lit("talent"), Name, OneOf({"enabled", "rank"})>>)
    THEN <<"**talent." \o seg[2] \o "." \o seg[3] \o "**\n\n",
           IF seg[3] = "enabled"
           THEN "Returns 1 if talent '" \o seg[2] \o "' is selected"
           ELSE "Returns the rank of talent '" \o seg[2] \o "' (0 if not selected)">>
    ELSE IF Match(seg, <<Lit("prev_gcd"), OneOf({"1", "2", "3"}), Name>>)
    THEN <<"**prev_gcd." \o seg[2] \o "." \o seg[3] \o "**\n\n",
           "Returns 1 if '" \o seg[3] \o "' was cast " \o seg[2] \o " GCD(s) ago">>
    ELSE IF Match(seg, <<Lit("active_dot"), Name, Lit("any")>>)
    THEN <<"**active_dot." \o seg[2] \o ".any**\n\n",
           "Count of enemies with any '" \o seg[2] \o "' DoT active">>
    ELSE IF Match(seg, <<Lit("active_dot"), Name>>)
    THEN <<"**active_dot." \o seg[2] \o "**\n\n",
           "Count of enemies with your '" \o seg[2]
               \o "' DoT active (player-applied only; use '.any' for any source)">>
    ELSE IF Match(seg, <<Lit("nameplates"), OneOf({"buff", "debuff"}), Name, Name,
                         Lit("any")>>)
    THEN <<"**nameplates." \o seg[2] \o "." \o seg[3] \o "." \o seg[4] \o ".any**\n\n",
           "Use '" \o seg[3] \o "' " \o seg[2] \o " from any source\n\n">>
         \o DescriptionIfKnown("nameplates." \o seg[2] \o ".SPELL." \o seg[4] \o ".any")
    ELSE IF Match(seg, <<Lit("nameplates"), OneOf({"buff", "debuff"}), Name, Name>>)
    THEN <<"**nameplates." \o seg[2] \o "." \o seg[3] \o "." \o seg[4] \o "**\n\n",
           "Use your '" \o seg[3] \o "' " \o seg[2]
               \o " (player-applied only; use '.any' for any source)\n\n">>
         \o DescriptionIfKnown("nameplates." \o seg[2] \o ".SPELL." \o seg[4])
    ELSE IF Match(seg, <<Lit("usable"), Name>>)
    THEN <<"**usable." \o seg[2] \o "**\n\n",
           "Returns 1 if '" \o seg[2] \o "' is usable (has resources and off cooldown)">>
    ELSE IF Match(seg, <<Lit("var"), Name>>)
    THEN <<"**var." \o seg[2] \o "**\n\n",
           "User-defined variable. Value is evaluated each tick from the 'variables:' section.">>
    ELSE IF Match(seg, <<OneOf({"config", "settings"}), Name>>)
    THEN <<"**" \o seg[1] \o "." \o seg[2] \o "**\n\n",
           "User config setting. Defined in the 'config:' section (slider, checkbox, or dropdown).">>
    ELSE NoHover

\* cycleHealthMatch[1] with its dot replaced by a space
SpacedPath(seg) == IF Len(seg) = 3 THEN seg[2] \o " " \o seg[3] ELSE seg[2]

\* matchTemplate: cycle, one_button_assistant, equipped, target.dispelable
\* and group
CycleTemplates(word, seg) ==
    IF \/ Match(seg, <<Lit("cycle"), Lit("health"),
                       OneOf({"current", "max", "pct", "deficit"})>>)
       \/ Match(seg, <<Lit("cycle"), Lit("range")>>)
    THEN <<"**" \o word \o "**\n\n",
           "Current cycle member " \o SpacedPath(seg)
               \o " value. Used in 'cycle=' conditions.">>
    ELSE IF Match(seg, <<Lit("cycle"), OneOf({"buff", "debuff"}), Name, Name,
                         OneOf({"any", "mine"})>>)
    THEN <<"**" \o word \o "**\n\n",
           "Check '" \o seg[4] \o "' of '" \o seg[3] \o "' " \o seg[2]
               \o " on current cycle member",
           IF seg[5] = "any" THEN " (from any source)" ELSE " (player-applied only)">>
    ELSE IF Match(seg, <<Lit("cycle"), OneOf({"buff", "debuff"}), Name, Name>>)
    THEN <<"**" \o word \o "**\n\n",
           "Check '" \o seg[4] \o "' of '" \o seg[3] \o "' " \o seg[2]
               \o " on current cycle member">>
    ELSE IF Match(seg, <<Lit("cycle"), Lit("dispelable"), Lit("list"), Name>>)
    THEN <<"**" \o word \o "**\n\n",
           "Check if current cycle member has dispellable debuff for '" \o seg[4] \o "'",
           " (with dispel_list filtering rules)">>
    ELSE IF Match(seg, <<Lit("cycle"), Lit("dispelable"), Name>>)
    THEN <<"**" \o word \o "**\n\n",
           "Check if current cycle member has dispellable debuff for '" \o seg[3] \o "'">>
    ELSE IF Match(seg, <<Lit("one_button_assistant"), Name, Lit("elapsed")>>)
    THEN <<"**" \o word \o "**\n\n",
           "Seconds since '" \o seg[2]
               \o "' was last shown by one-button assistant (999 if never)">>
    ELSE IF Match(seg, <<Lit("one_button_assistant"), Name>>)
    THEN <<"**" \o word \o "**\n\n",
           "Returns 1 if '" \o seg[2] \o "' is currently shown by one-button assistant">>
    ELSE IF Match(seg, <<Lit("equipped"), Digits>>)
    THEN <<"**equipped." \o seg[2] \o "**\n\n",
           "Returns 1 if item ID " \o seg[2] \o " is equipped">>
    ELSE IF Match(seg, <<Lit("target"), Lit("dispelable"), Lit("list"), Name>>)
    THEN <<"**" \o word \o "**\n\n",
           "Check if target has dispellable buff/enrage for '" \o seg[4] \o "'",
           " (with dispel_list filtering rules)">>
    ELSE IF Match(seg, <<Lit("target"), Lit("dispelable"), Name>>)
    THEN <<"**" \o word \o "**\n\n",
           "Check if target has dispellable buff/enrage for '" \o seg[3] \o "'">>
    ELSE IF Match(seg, <<Lit("group"), OneOf({"buff", "missing"}), Name, Name>>)
    THEN <<"**" \o word \o "**\n\n",
           IF seg[2] = "buff"
           THEN "'" \o seg[4] \o "' for members with '" \o seg[3] \o "' buff"
           ELSE "'" \o seg[4] \o "' for members missing '" \o seg[3] \o "' buff">>
    ELSE NoHover

\* propDesc of the function-call syntax
propDesc ==
    <<[key |-> "up", description |-> "Returns 1 if active, 0 otherwise"],
      [key |-> "down", description |-> "Returns 1 if NOT active, 0 otherwise"],
      [key |-> "remains", description |-> "Returns remaining duration in seconds"],
      [key |-> "stacks", description |-> "Returns current stack count"]>>

\* the names that target.casting.NAME keeps for the dictionary
CastingProperties ==
    {"spell", "remains", "elapsed", "interruptible", "important", "targeting_me"}

\* /^group\.count\(([^)]+)\)$/: the expression between the parentheses
CountedExpression(word) == Slice(word, 13, Len(word) - 1)

\* matchTemplate: the function-call syntax and target.casting.NAME
FunctionTemplates(word, seg) ==
    IF /\ Len(seg) = 3
       /\ seg[1] \in Units
       /\ seg[2] \in {"buff", "debuff"}
       /\ IsCall(seg[3])
       /\ CallFn(seg[3]) \in AuraFunctions
    THEN <<"**" \o word \o "**\n\n",
           "Check '" \o CallFn(seg[3]) \o "' of " \o seg[2] \o " '" \o CallArg(seg[3])
               \o "' on " \o seg[1] \o " (function syntax)\n\n",
           Lookup(propDesc, CallFn(seg[3])).description>>
    ELSE IF /\ Len(seg) = 2
            /\ seg[1] = "player"
            /\ IsCall(seg[2])
            /\ CallFn(seg[2]) = "talent"
    THEN <<"**player.talent(" \o CallArg(seg[2]) \o ")**\n\n",
           "Returns 1 if talent '" \o CallArg(seg[2])
               \o "' is selected (function syntax)">>
    ELSE IF /\ Len(seg) = 2
            /\ seg[1] = "player"
            /\ IsCall(seg[2])
            /\ CallFn(seg[2]) \in {"prev_gcd_1", "prev_gcd_2", "prev_gcd_3",
                                   "prev_gcd_4", "prev_gcd_5"}
    THEN <<"**player." \o CallFn(seg[2]) \o "(" \o CallArg(seg[2]) \o ")**\n\n",
           "Returns 1 if '" \o CallArg(seg[2]) \o "' was cast "
               \o Ch(CallFn(seg[2]), 10) \o " GCD(s) ago (function syntax)">>
    ELSE IF /\ startsWith(word, "group.count(")
            /\ EndsWith(word, ")")
            /\ Len(word) >= 14
            /\ ~includes(CountedExpression(word), ")")
    THEN <<"**group.count(" \o CountedExpression(word) \o ")**\n\n",
           "Count of group members matching the expression inside parentheses.\n\nUse 'cycle.*' expressions inside (e.g., 'cycle.health.pct<50')">>
    ELSE IF /\ Len(seg) \in {2, 3}
            /\ seg[1] = "enemies"
            /\ (Len(seg) = 3 => seg[2] = "combat")
            /\ IsCall(seg[Len(seg)])
            /\ CallFn(seg[Len(seg)]) = "inrange"
            /\ AllIn(CallArg(seg[Len(seg)]), DigitSet)
    THEN <<"**" \o word \o "**\n\n",
           "Count of enemies within " \o CallArg(seg[Len(seg)]) \o " yards">>
         \o (IF includes(word, ".combat") THEN <<" (in combat only)">> ELSE <<>>)
    ELSE IF /\ Len(seg) = 3
            /\ seg[1] \in {"target", "focus", "mouseover"}
            /\ seg[2] = "casting"
            /\ AllIn(seg[3], LowerUnderscoreSet)
            /\ seg[3] \notin CastingProperties
    THEN <<"**" \o word \o "**\n\n",
           "Returns 1 if " \o seg[1] \o " is casting '" \o seg[3] \o "' spell">>
    ELSE NoHover

\* the first of the hovers that is one
OrElse(hover, other) == IF hover # NoHover THEN hover ELSE other

\* matchTemplate, seg being the parts of word
TemplateHover(word, seg, hasCycleContext) ==
    OrElse(AuraTemplates(seg, hasCycleContext),
           OrElse(NameTemplates(seg),
                  OrElse(CycleTemplates(word, seg), FunctionTemplates(word, seg))))

matchTemplate(word, hasCycleContext) ==
    TemplateHover(word, Segments(word), hasCycleContext)

\* the operators of getOperatorHover, one or two characters long
operators ==
    <<[key |-> "&", description |-> "AND operator - both conditions must be true"],
      [key |-> "|", description |-> "OR operator - either condition must be true"],
      [key |-> "!", description |-> "NOT operator - negates the following condition"],
      [key |-> "<", description |-> "Less than comparison"],
      [key |-> ">", description |-> "Greater than comparison"],
      [key |-> "=", description |-> "Equality comparison"]>>

twoCharOperators ==
    <<[key |-> "<=", description |-> "Less than or equal"],
      [key |-> ">=", description |-> "Greater than or equal"],
      [key |-> "!=", description |-> "Not equal"],
      [key |-> "==", description |-> "Equal (same as =)"],
      [key |-> ">?",
       description |-> "Min operator (SimC style) - returns minimum of two values"],
      [key |-> "<?",
       description |-> "Max operator (SimC style) - returns maximum of two values"]>>

\* getOperatorHover after line.substring(pos, pos + 2)
OperatorHover(char, twoChar) ==
    IF Defined(twoCharOperators, twoChar)
    THEN <<"**" \o twoChar \o "** - " \o Lookup(twoCharOperators, twoChar).description>>
    ELSE IF Defined(operators, char)
    THEN <<"**" \o char \o "** - " \o Lookup(operators, char).description>>
    ELSE NoHover

\* pos is the 0-based column of the source
getOperatorHover(char, line, pos) ==
    OperatorHover(char, Slice(line, pos + 1, Min(pos + 2, Len(line))))

\* the characters of /[\w._]+/
HoverSet == WordSet \cup {"."}

\* the match of /[\w._]+/ that runs through the 1-based position i
RunThrough(line, i) ==
    Slice(line, LastIn({j \in 1..i : Ch(line, j) \notin HoverSet}) + 1,
                SkipRun(line, i, HoverSet) - 1)

\* document.getText(document.getWordRangeAtPosition(position, /[\w._]+/)):
\* the match that holds the 0-based column or ends at it, "" when the
\* range is undefined
WordAt(line, character) ==
    IF At(line, character + 1) \in HoverSet THEN RunThrough(line, character + 1)
    ELSE IF character >= 1 /\ At(line, character) \in HoverSet
    THEN RunThrough(line, character)
    ELSE ""

CycleTargets == {"members", "tanks", "healers", "dps"}

\* \s*(members|tanks|healers|dps) at position k
CycleTargetAt(line, k) == \E t \in CycleTargets : StartsWithAt(line, SkipSpaces(line, k), t)

\* \s*=\s*(members|tanks|healers|dps) at position j
CycleEqualsAt(line, j) == At(line, j) = "=" /\ CycleTargetAt(line, j + 1)

\* /cycle\s*=\s*(members|tanks|healers|dps)/.test(line)
HasCycleContext(line) ==
    \E i \in 1..Len(line) :
        StartsWithAt(line, i, "cycle") /\ CycleEqualsAt(line, SkipSpaces(line, i + 5))

\* provideHover with the templated shapes tried before the exact key
WordHoverTemplateFirst(line, character, word, hasCycleContext) ==
    IF hasCycleContext /\ Defined(CYCLE_CONTEXT_EXPRESSIONS, word)
    THEN createCycleContextHover(word, Lookup(CYCLE_CONTEXT_EXPRESSIONS, word))
    ELSE IF matchTemplate(word, hasCycleContext) # NoHover
    THEN matchTemplate(word, hasCycleContext)
    ELSE IF Defined(EXPRESSIONS, word)
    THEN createExpressionHover(word, Lookup(EXPRESSIONS, word))
    ELSE IF AllIn(word, WordSet) /\ Defined(STEP_OPTIONS, word)
    THEN createStepOptionHover(word, Lookup(STEP_OPTIONS, word))
    ELSE IF Defined(SPECIAL_ACTIONS, word)
    THEN createActionHover(word, Lookup(SPECIAL_ACTIONS, word).description)
    ELSE getOperatorHover(At(line, character + 1), line, character)

\* provideHover from the test of the cycle context on
WordHover(line, character, word, hasCycleContext) ==
    IF hasCycleContext /\ Defined(CYCLE_CONTEXT_EXPRESSIONS, word)
    THEN createCycleContextHover(word, Lookup(CYCLE_CONTEXT_EXPRESSIONS, word))
    ELSE IF Defined(EXPRESSIONS, word)
    THEN createExpressionHover(word, Lookup(EXPRESSIONS, word))
    ELSE IF matchTemplate(word, hasCycleContext) # NoHover
    THEN matchTemplate(word, hasCycleContext)
    ELSE IF AllIn(word, WordSet) /\ Defined(STEP_OPTIONS, word)
    THEN createStepOptionHover(word, Lookup(STEP_OPTIONS, word))
    ELSE IF Defined(SPECIAL_ACTIONS, word)
    THEN createActionHover(word, Lookup(SPECIAL_ACTIONS, word).description)
    ELSE getOperatorHover(At(line, character + 1), line, character)

\* provideHover after document.lineAt(position).text
LineHover(line, character, word) ==
    IF word = "" THEN NoHover
    ELSE WordHover(line, character, word, HasCycleContext(line))

\* position holds the 0-based line and character
provideHover(doc, position) ==
    LineHover(doc[position.line + 1], position.character,
              WordAt(doc[position.line + 1], position.character))

\* ------------------------------------------------------------------------
\* completionProvider.ts: the options of a step and the names of the lists
\* ------------------------------------------------------------------------

\* /^[a-z_]+:/.test(lineText) && !lineText.startsWith(' '), the run of
\* [a-z_] ending before position e
IsRootSectionTo(lineText, e) ==
    e > 1 /\ At(lineText, e) = ":" /\ ~startsWith(lineText, " ")

\* the loop of isInSection from line i, counted from 1, upwards
RECURSIVE InSectionFrom(_, _, _)
InSectionFrom(document, i, sectionName) ==
    IF i < 1 THEN FALSE
    ELSE IF startsWith(document[i], sectionName) THEN TRUE
    ELSE IF IsRootSectionTo(document[i], SkipLowerUnderscore(document[i], 1))
    THEN FALSE
    ELSE InSectionFrom(document, i - 1, sectionName)

isInSection(document, position, sectionName) ==
    InSectionFrom(document, position.line + 1, sectionName)

\* first position of the run of word characters that ends at position e
WordStart(s, e) ==
    FirstIn({i \in 1..e : \A k \in i..e : IsWordCh(At(s, k))})

\* (\w+)=(\w*)$ with the = at position j, 0 for no such position:
\* <<optionName, partial>>, <<>> when there is no match
ValueMatchAt(linePrefix, j) ==
    IF /\ j > 1
       /\ IsWordCh(At(linePrefix, j - 1))
       /\ SkipWord(linePrefix, j + 1) > Len(linePrefix)
    THEN <<Slice(linePrefix, WordStart(linePrefix, j - 1), j - 1),
           Rest(linePrefix, j + 1)>>
    ELSE <<>>

\* linePrefix.match(/(\w+)=(\w*)$/): only word characters may follow the =,
\* so it is the last = of linePrefix
ValueMatch(linePrefix) ==
    ValueMatchAt(linePrefix,
                 LastIn({j \in 1..Len(linePrefix) : At(linePrefix, j) = "="}))

\* the names of the sharedLists of getStepOptionCompletions
completionSharedLists ==
    <<"spell_queue", "sanity_checks", "auto_target", "auto_heal", "variables">>

\* the names n with `n.startsWith(partial) || partial === ''`, in their order
StartingWith(names, partial) ==
    SelectSeq(names, LAMBDA n : startsWith(n, partial) \/ partial = "")

\* RotationCompletionProvider.collectDefinedLists with inListsSection
\* initialized to true
completionCollectFromTop(document) ==
    CollectFrom(document, 1, "lists:", TRUE, [inSection |-> TRUE, found |-> <<>>])

\* RotationCompletionProvider.collectDefinedLists
completionCollectDefinedLists(document) ==
    CollectFrom(document, 1, "lists:", TRUE, NotInSection)

\* the items of the shared lists, then the items of the lists of the document
ListNameItems(definedLists, partial) ==
    StartingWith(completionSharedLists, partial) \o StartingWith(definedLists, partial)

\* the value typed is the name of a list: name= after call_action_list or
\* run_action_list, or call=
IsListNameOption(linePrefix, optionName) ==
    \/ /\ optionName = "name"
       /\ \/ includes(linePrefix, "call_action_list")
          \/ includes(linePrefix, "run_action_list")
    \/ optionName = "call"

\* optionInfo && optionInfo.values
HasValues(optionName) ==
    Defined(STEP_OPTIONS, optionName) /\ Lookup(STEP_OPTIONS, optionName).values # <<>>

\* the labels of the loop over STEP_OPTIONS, then the item of if=
OptionItems(linePrefix) ==
    SelectSeq([i \in 1..Len(STEP_OPTIONS) |-> STEP_OPTIONS[i].key],
              LAMBDA option : ~includes(linePrefix, option \o "="))
    \o (IF includes(linePrefix, ",if=") THEN <<>> ELSE <<"if">>)

\* getStepOptionCompletions inside `if (valueMatch)`, falling through to the
\* loop over STEP_OPTIONS
ValueItems(linePrefix, document, optionName, partial) ==
    IF IsListNameOption(linePrefix, optionName)
    THEN ListNameItems(completionCollectDefinedLists(document), partial)
    ELSE IF HasValues(optionName)
    THEN StartingWith(Lookup(STEP_OPTIONS, optionName).values, partial)
    ELSE OptionItems(linePrefix)

\* getStepOptionCompletions after linePrefix.match(/(\w+)=(\w*)$/)
StepOptionItems(linePrefix, document, valueMatch) ==
    IF valueMatch = <<>> THEN OptionItems(linePrefix)
    ELSE ValueItems(linePrefix, document, valueMatch[1], valueMatch[2])

\* the labels of the items that getStepOptionCompletions returns
getStepOptionCompletions(linePrefix, document) ==
    StepOptionItems(linePrefix, document, ValueMatch(linePrefix))

\* provideCompletionItems returns this.getStepOptionCompletions(...): none of
\* its two earlier returns is taken and the cursor is after a comma of an
\* action line
AfterComma(document, position, line, linePrefix) ==
    /\ ~(includes(linePrefix, ",if=") \/ includes(linePrefix, "if:"))
    /\ ~isInSection(document, position, "variables:")
    /\ ~includes(linePrefix, "movement_allowed:")
    /\ startsWith(trimStart(line), "-")
    /\ includes(linePrefix, ",")

\* line.substring(0, position.character)
LinePrefix(document, position) ==
    Slice(document[position.line + 1], 1, position.character)

\* the positions for which provideCompletionItems answers with the options
\* of a step
AnswersStepOptions(document, position) ==
    AfterComma(document, position, document[position.line + 1],
               LinePrefix(document, position))

\* provideCompletionItems for such a position
provideCompletionItems(document, position) ==
    getStepOptionCompletions(LinePrefix(document, position), document)

\* ------------------------------------------------------------------------
\* State
\* ------------------------------------------------------------------------

VARIABLES
    spells,           \* SpellDatabase.spells: records in insertion order
    spellsById,       \* SpellDatabase.spellsById
    loaded,           \* SpellDatabase.loaded
    extensionPath,    \* SpellDatabase.extensionPath
    everLoaded,       \* some call of loadFromCsv has returned true
    fs,               \* the files on disk
    workspaceFolders, \* vscode.workspace.workspaceFolders
    task,             \* the autoLoad call in flight and where it is suspended
    activated,        \* activate() has registered the commands and providers
    docInfo,          \* language id and path of the open document
    document,         \* the lines of the open document
    diagnostics,      \* the findings published for the document
    passRan,          \* the last step ran a validation pass over the document
    call,             \* the last request served by a provider, with its answer
    reloadFrom        \* the database as the last reload found it

vars == <<spells, spellsById, loaded, extensionPath, everLoaded, fs,
          workspaceFolders, task, activated, docInfo, document, diagnostics,
          passRan, call, reloadFrom>>

db == [spells |-> spells, spellsById |-> spellsById, loaded |-> loaded]

EmptyDb == [spells |-> <<>>, spellsById |-> <<>>, loaded |-> FALSE]

\* no request served yet
NoCall == [op |-> "none", args |-> <<>>, result |-> <<>>]

Idle == [op |-> "none", phase |-> "done", next |-> 1, loadedAny |-> FALSE]

Started(op) == [op |-> op, phase |-> "workspace", next |-> 1, loadedAny |-> FALSE]

\* ------------------------------------------------------------------------
\* autoLoad, cut at its awaits
\* ------------------------------------------------------------------------

\* index of the first existing path of `paths` at or after index `from`, 0 if none
NextExisting(files, paths, from) ==
    FirstIn({k \in from..Len(paths) : files[paths[k]] # NoFile})

RECURSIVE AllCandidates(_, _)
AllCandidates(folders, k) ==
    IF k > Len(folders) THEN <<>>
    ELSE WorkspaceCandidates(folders[k]) \o AllCandidates(folders, k + 1)

NoLoad == [phase |-> "done", k |-> 0, path |-> ""]

\* the next existing bundled path, k being its index (0: none)
BundledNext(paths, k) ==
    IF k # 0 THEN [phase |-> "bundled", k |-> k, path |-> paths[k]] ELSE NoLoad

\* the bundled paths from index `from` on
BundledFrom(files, paths, from) == BundledNext(paths, NextExisting(files, paths, from))

\* the next existing workspace path, k being its index; with none left, the
\* test `!loadedAny && this.extensionPath` and the bundled paths
WorkspaceNext(t, files, extPath, paths, k) ==
    IF k # 0 THEN [phase |-> "workspace", k |-> k, path |-> paths[k]]
    ELSE IF ~t.loadedAny /\ extPath # "" THEN BundledFrom(files, bundledPaths(extPath), 1)
    ELSE NoLoad

\* the workspace paths from index t.next on
WorkspaceFrom(t, files, extPath, paths) ==
    WorkspaceNext(t, files, extPath, paths, NextExisting(files, paths, t.next))

\* the file on which autoLoad, resumed at t, calls loadFromCsv next: the
\* existence tests it makes on its way there
NextLoad(t, files, extPath, wsFolders) ==
    IF t.phase = "workspace"
    THEN IF ~wsFolders.defined THEN NoLoad
         ELSE WorkspaceFrom(t, files, extPath, AllCandidates(wsFolders.folders, 1))
    ELSE IF t.phase = "bundled"
    THEN BundledFrom(files, bundledPaths(extPath), t.next)
    ELSE NoLoad

\* autoLoad at its await of the call loadFromCsv that returned r
AfterLoad(t, load, r) ==
    [db |-> r.db,
     task |-> [op |-> t.op,
               phase |-> IF load.phase = "bundled" /\ r.result THEN "break"
                         ELSE load.phase,
               next |-> load.k + 1,
               loadedAny |-> (t.loadedAny \/ r.result)],
     result |-> r.result]

\* autoLoad from where t left it, `load` being its next call of loadFromCsv
AutoLoadTo(d, t, files, load) ==
    IF load.phase = "done"
    THEN [db |-> d,
          task |-> [op |-> t.op, phase |-> "done", next |-> t.next,
                    loadedAny |-> t.loadedAny],
          result |-> FALSE]
    ELSE AfterLoad(t, load, loadFromCsv(d, files[load.path]))

\* autoLoad from where `t` left it up to its next await or its return: the
\* database and the position afterwards, and whether the loadFromCsv call of
\* this stretch returned true.  In phase "workspace" it is in the loops over
\* the workspace folders, in "bundled" in the loop over the bundled paths, in
\* "break" it has left that loop on a true result, in "done" it has returned.
autoLoad(d, t, extPath, files, wsFolders) ==
    AutoLoadTo(d, t, files, NextLoad(t, files, extPath, wsFolders))

Returned(t) == t.phase \in {"done", "break"}

\* ------------------------------------------------------------------------
\* Actions
\* ------------------------------------------------------------------------

\* the state after the stretch r of autoLoad
Suspend(r) ==
    /\ spells' = r.db.spells
    /\ spellsById' = r.db.spellsById
    /\ loaded' = r.db.loaded
    /\ task' = r.task
    /\ everLoaded' = (everLoaded \/ r.result)
    /\ passRan' = FALSE

\* a pass whose symbol sets keep the identifiers of the text before the event
PublishKeeping(info, doc, d) ==
    IF isRotationYaml(info, doc)
    THEN /\ diagnostics' =
              ScanLines(doc, 0, d,
                        collectDefinedLists(document) \o collectDefinedLists(doc),
                        collectDefinedConfigVars(document)
                            \o collectDefinedConfigVars(doc),
                        collectDefinedVariables(document)
                            \o collectDefinedVariables(doc))
         /\ passRan' = TRUE
    ELSE /\ diagnostics' = diagnostics
         /\ passRan' = FALSE

\* the handlers of onDidChangeTextDocument and onDidOpenTextDocument, and the
\* body of the forEach that ends activate
Publish(info, doc, d) ==
    IF isRotationYaml(info, doc)
    THEN /\ diagnostics' = updateDiagnostics(doc, d)
         /\ passRan' = TRUE
    ELSE /\ diagnostics' = diagnostics
         /\ passRan' = FALSE

\* a document event, the handlers being registered before the load
NotifyAlways(info, doc) == Publish(info, doc, db)

\* a document event: the handlers exist once activate has registered them
Notify(info, doc) ==
    IF activated THEN Publish(info, doc, db)
    ELSE /\ diagnostics' = diagnostics
         /\ passRan' = FALSE

\* activate() up to its await of autoLoad
ActivateStart ==
    /\ ~activated
    /\ task.op = "none"
    /\ extensionPath' = ExtensionDir
    /\ Suspend(autoLoad(db, Started("activate"), ExtensionDir, fs, workspaceFolders))
    /\ UNCHANGED <<fs, workspaceFolders, activated, docInfo, document, diagnostics,
                   call, reloadFrom>>

\* autoLoad resumes after an await of loadFromCsv
AutoLoadResume ==
    /\ task.op # "none"
    /\ ~Returned(task)
    /\ Suspend(autoLoad(db, task, extensionPath, fs, workspaceFolders))
    /\ UNCHANGED <<extensionPath, fs, workspaceFolders, activated, docInfo,
                   document, diagnostics,
                   call, reloadFrom>>

\* activate() from the return of autoLoad to its end
ActivateFinish ==
    /\ task.op = "activate"
    /\ Returned(task)
    /\ activated' = TRUE
    /\ task' = Idle
    /\ Publish(docInfo, document, db)
    /\ UNCHANGED <<spells, spellsById, loaded, extensionPath, everLoaded, fs,
                   workspaceFolders, docInfo, document,
                   call, reloadFrom>>

\* the reload command without the clearing of the tables
ReloadSpellsKeeping ==
    /\ activated
    /\ task.op = "none"
    /\ reloadFrom' = db
    /\ Suspend(autoLoad(db, Started("reload"), extensionPath, fs, workspaceFolders))
    /\ UNCHANGED <<extensionPath, fs, workspaceFolders, activated, docInfo,
                   document, diagnostics,
                   call>>

\* the rotation-yaml.reloadSpells command up to its await of reload()
ReloadSpells ==
    /\ activated
    /\ task.op = "none"
    /\ reloadFrom' = db
    /\ Suspend(autoLoad(EmptyDb, Started("reload"), extensionPath, fs, workspaceFolders))
    /\ UNCHANGED <<extensionPath, fs, workspaceFolders, activated, docInfo,
                   document, diagnostics,
                   call>>

\* the reload command after reload() has returned
ReloadFinish ==
    /\ task.op = "reload"
    /\ Returned(task)
    /\ task' = Idle
    /\ passRan' = FALSE
    /\ UNCHANGED <<spells, spellsById, loaded, extensionPath, everLoaded, fs,
                   workspaceFolders, activated, docInfo, document, diagnostics,
                   call, reloadFrom>>

\* the editor opens the document with the text newDoc
OpenDocument(newDoc) ==
    /\ document' = newDoc
    /\ Notify(docInfo, newDoc)
    /\ UNCHANGED <<spells, spellsById, loaded, extensionPath, everLoaded, fs,
                   workspaceFolders, task, activated, docInfo,
                   call, reloadFrom>>

\* an edit turns the text of the document into newDoc
ChangeDocument(newDoc) ==
    /\ newDoc # document
    /\ document' = newDoc
    /\ Notify(docInfo, newDoc)
    /\ UNCHANGED <<spells, spellsById, loaded, extensionPath, everLoaded, fs,
                   workspaceFolders, task, activated, docInfo,
                   call, reloadFrom>>

\* yamlSelector: the documents the providers are registered for
yamlSelector(info) ==
    \/ info.languageId \in {"yaml", "rotation-yaml"}
    \/ includes(info.fsPath, "/yaml/") /\ EndsWith(info.fsPath, ".yaml")

\* the positions of a text: 0-based line and character, the end of each line
\* included
Positions(doc) ==
    UNION {{[line |-> l - 1, character |-> c] : c \in 0..Len(doc[l])} :
           l \in 1..Len(doc)}

\* a request whose answering marks the database as loaded
ServeMarking(op, args, result) ==
    /\ activated
    /\ yamlSelector(docInfo)
    /\ call' = [op |-> op, args |-> args, result |-> result]
    /\ passRan' = FALSE
    /\ loaded' = TRUE
    /\ UNCHANGED <<spells, spellsById, extensionPath, everLoaded, fs,
                   workspaceFolders, task, activated, docInfo, document,
                   diagnostics, reloadFrom>>

\* a request served by a provider: the answer is kept, nothing else changes
Serve(op, args, result) ==
    /\ activated
    /\ yamlSelector(docInfo)
    /\ call' = [op |-> op, args |-> args, result |-> result]
    /\ passRan' = FALSE
    /\ UNCHANGED <<spells, spellsById, loaded, extensionPath, everLoaded, fs,
                   workspaceFolders, task, activated, docInfo, document,
                   diagnostics, reloadFrom>>

\* the editor asks the registered hover provider for the hover at a position
ProvideHover(position) ==
    /\ position \in Positions(document)
    /\ Serve("provideHover", <<document, position>>,
             provideHover(document, position))

\* a caller asks the database whether a name is a spell
IsValidSpell(name) ==
    Serve("isValidSpell", <<name>>, isValidSpell(db, name))

\* a caller asks the database for the spells similar to a name
FindSimilar(name, maxDistance) ==
    Serve("findSimilar", <<name, maxDistance>>, findSimilar(db, name, maxDistance))

\* the completion provider asks the database for the spells of a prefix
SearchSpells(prefix, limit) ==
    Serve("searchSpells", <<prefix, limit>>, searchSpells(db, prefix, limit))

\* a caller asks the database for the normalized form of a name
NormalizeName(name) ==
    Serve("normalizeName", <<name>>, normalizeName(name))

\* a caller asks the database for the record of a name
GetSpell(name) ==
    Serve("getSpell", <<name>>, getSpell(db, name))

\* a caller asks the database for the record of an id
GetSpellById(id) ==
    Serve("getSpellById", <<id>>, getSpellById(db, id))

\* the editor asks the registered completion provider for the items at a
\* position after a comma of an action line
ProvideCompletionItems(position) ==
    /\ position \in Positions(document)
    /\ AnswersStepOptions(document, position)
    /\ Serve("provideCompletionItems", <<document, position>>,
             provideCompletionItems(document, position))

\* the state after a call of loadFromCsv that was not made by autoLoad
Called(path, r) ==
    /\ spells' = r.db.spells
    /\ spellsById' = r.db.spellsById
    /\ loaded' = r.db.loaded
    /\ everLoaded' = (everLoaded \/ r.result)
    /\ call' = [op |-> "loadFromCsv", args |-> <<path>>, result |-> r.result]
    /\ passRan' = FALSE

\* a caller has the database load the file at a path
LoadFromCsv(path) ==
    /\ Called(path, loadFromCsv(db, fs[path]))
    /\ UNCHANGED <<extensionPath, fs, workspaceFolders, task, activated, docInfo,
                   document, diagnostics, reloadFrom>>

\* the files on disk change while no load is in flight
WriteFile(newFs) ==
    /\ task.op = "none"
    /\ newFs # fs
    /\ fs' = newFs
    /\ passRan' = FALSE
    /\ UNCHANGED <<spells, spellsById, loaded, extensionPath, everLoaded,
                   workspaceFolders, task, activated, docInfo, document,
                   diagnostics,
                   call, reloadFrom>>

\* ------------------------------------------------------------------------
\* Specifications
\* ------------------------------------------------------------------------

\* the longest document the line-by-line edits build
MaxLines == 4

\* the texts a line-by-line edit can produce: one more line of Lines
Appended(Lines) ==
    {Append(document, l) : l \in {x \in Lines : Len(document) < MaxLines}}

InitWith(Fss, Wss, Infos) ==
    /\ spells = <<>>
    /\ spellsById = <<>>
    /\ loaded = FALSE
    /\ extensionPath = ""
    /\ everLoaded = FALSE
    /\ fs \in Fss
    /\ workspaceFolders \in Wss
    /\ task = Idle
    /\ activated = FALSE
    /\ docInfo \in Infos
    /\ document = <<>>
    /\ diagnostics = <<>>
    /\ passRan = FALSE
    /\ call = NoCall
    /\ reloadFrom = EmptyDb

\* the extension with files that change, reloads, and whole-text edits
DocPlain == <<"actions:", "  - fireball,if=buff.haste.up">>
DocUnknown == <<"lists:", "  - frostbolt,if=buff.hast.up&cooldown.fireball.ready">>
DocPool == {<<>>, DocPlain, DocUnknown}
FsPool == {FsNone, FsMain, FsHeaderOnly, FsData, FsBundled}
InfoPool == {YamlDoc, LooseDoc}

Init == InitWith(FsPool, {NoWorkspace, OneFolder}, InfoPool)

Next ==
    \/ ActivateStart
    \/ AutoLoadResume
    \/ ActivateFinish
    \/ ReloadSpells
    \/ ReloadFinish
    \/ \E newDoc \in DocPool : OpenDocument(newDoc)
    \/ \E newDoc \in DocPool : ChangeDocument(newDoc)
    \/ \E newFs \in FsPool : WriteFile(newFs)

Spec == Init /\ [][Next]_vars

\* the extension over fixed files, with line-by-line edits of the document
EditInit(Fss) == InitWith(Fss, {OneFolder}, {YamlDoc})

EditNext(Lines) ==
    \/ ActivateStart
    \/ AutoLoadResume
    \/ ActivateFinish
    \/ OpenDocument(<<>>)
    \/ \E newDoc \in Appended(Lines) : ChangeDocument(newDoc)

\* the longest document the revisions build
MaxRevised == 3

\* the texts a revision can produce: one line replaced by a line of Lines, or
\* one more line of Lines
Revised(Lines) ==
    {[document EXCEPT ![i] = l] : i \in 1..Len(document), l \in Lines}
    \cup {Append(document, l) : l \in {x \in Lines : Len(document) < MaxRevised}}

\* the extension over fixed files, with edits that replace or append a line
ReviseNext(Lines) ==
    \/ ActivateStart
    \/ AutoLoadResume
    \/ ActivateFinish
    \/ OpenDocument(<<>>)
    \/ \E newDoc \in Revised(Lines) : ChangeDocument(newDoc)

\* ------------------------------------------------------------------------
\* Properties: what the findings of a pass are about
\* ------------------------------------------------------------------------

\* the findings published for line i of the document, lines counted from 1
OnLine(i) == SelectSeq(diagnostics, LAMBDA f : f.line = i - 1)

Count(findings, P(_)) == Len(SelectSeq(findings, P))

IsUnknownSpell(f) == startsWith(f.message, "Unknown spell")

IsUndefinedList(f) ==
    startsWith(f.message, "Action list \"") /\ includes(f.message, "is not defined")

IsUndefinedVariable(f) ==
    startsWith(f.message, "Variable \"") /\ includes(f.message, "is not defined")

IsUndefinedConfig(f) ==
    startsWith(f.message, "Config variable \"") /\ includes(f.message, "is not defined")

\* the message of f quotes `name`
Naming(f, name) == includes(f.message, "\"" \o name \o "\"")

\* ------------------------------------------------------------------------
\* The spell database before any successful load
\* ------------------------------------------------------------------------

ProbeNames == {"fireball", "Frostbolt", "no_such_spell"}

\* C1: as long as no call of loadFromCsv has returned true, isValidSpell
\* returns true for every name and the findings of a validation pass hold no
\* unknown-spell warning
FailOpenUntilLoaded ==
    ~everLoaded =>
        /\ \A name \in ProbeNames : isValidSpell(db, name)
        /\ passRan => Count(diagnostics, IsUnknownSpell) = 0

\* ------------------------------------------------------------------------
\* Action lists: declarations and references
\* ------------------------------------------------------------------------

LinesLists ==
    {"lists:", "  main:", "actions:",
     "  - call_action_list,name=main",
     "  - run_action_list,name=other,if=buff.haste.up"}

SpecLists == EditInit({FsMain}) /\ [][EditNext(LinesLists)]_vars

\* the lines of the documents that are root keys
RootKeyLines == {"lists:", "actions:", "config:", "variables:"}

\* line i of doc lies in the section that the line `header` opens: header is
\* the nearest root key above it
InSection(doc, i, header) ==
    \E j \in 1..(i - 1) :
        /\ doc[j] = header
        /\ \A k \in (j + 1)..(i - 1) : doc[k] \notin RootKeyLines

\* the names among `names` that doc declares by a line `  name:` in the
\* section of `header`
DeclaredIn(doc, header, names) ==
    {name \in names :
        \E i \in 1..Len(doc) : doc[i] = "  " \o name \o ":" /\ InSection(doc, i, header)}

ListNames == {"main", "other"}

\* the action lines that reference the list `name`
ReferencesTo(name) ==
    {"  - call_action_list,name=" \o name,
     "  - run_action_list,name=" \o name \o ",if=buff.haste.up"}

\* C2: every list declared by a line `  L:` inside the lists: section is in
\* the set collectDefinedLists builds and a line that calls it has no
\* undefined-list finding; a line that references a name neither declared
\* nor among the shared lists has exactly one Error finding that names it
ListRoundTrip ==
    passRan =>
        /\ \A L \in DeclaredIn(document, "lists:", ListNames) :
               Has(collectDefinedLists(document), L)
        /\ \A i \in 1..Len(document) : \A N \in ListNames :
               document[i] \in ReferencesTo(N) =>
                   IF N \in DeclaredIn(document, "lists:", ListNames)
                   THEN Count(OnLine(i), IsUndefinedList) = 0
                   ELSE N \notin sharedLists =>
                            Count(OnLine(i),
                                  LAMBDA f : f.severity = Error /\ Naming(f, N)) = 1

\* a pass over a document that calls a declared list and an undeclared one
ListRoundTripCase ==
    /\ passRan
    /\ "main" \in DeclaredIn(document, "lists:", ListNames)
    /\ \E i \in 1..Len(document) : document[i] \in ReferencesTo("main")
    /\ \E i \in 1..Len(document) : document[i] \in ReferencesTo("other")

\* ------------------------------------------------------------------------
\* Spell names in expressions
\* ------------------------------------------------------------------------

LineBuffCooldown == "  - fireball,if=buff.hast.up&cooldown.fireball.ready"
LineNameplates == "  - fireball,if=nameplates.debuff.slow.count>2"
LineFunctions == "  - haste,if=player.buff.up(frost)&dot.frost.ticking"
LinePlaceholders == "  - SPELL,if=buff.SPELL.up&talent.TALENT"
LineSpellIds == "  - 133,if=debuff.2825.up"

LinesSpells ==
    {LineBuffCooldown, LineNameplates, LineFunctions, LinePlaceholders, LineSpellIds}

SpecSpells == EditInit({FsMain}) /\ [][EditNext(LinesSpells)]_vars

\* the names captured by the templated expressions of a line whose leading
\* action name is in the dictionary, one per occurrence
CapturedNames(line) ==
    IF line = LineBuffCooldown THEN <<"hast", "fireball">>
    ELSE IF line = LineNameplates THEN <<"slow">>
    ELSE IF line = LineFunctions THEN <<"frost", "frost">>
    ELSE <<>>

SpellNames == {"hast", "fireball", "slow", "frost"}

Occurrences(names, name) == Cardinality({k \in 1..Len(names) : names[k] = name})

InDictionary(name) == \E k \in 1..Len(spells) : spells[k].normalizedName = name

\* C3: with the dictionary loaded and the leading action name in it, every
\* occurrence of a templated expression has exactly one unknown-spell warning
\* that names the captured name when the name is not in the dictionary, and
\* none when it is
OneWarningPerExpression ==
    passRan /\ loaded =>
        \A i \in 1..Len(document) : \A name \in SpellNames :
            Count(OnLine(i),
                  LAMBDA f : IsUnknownSpell(f) /\ f.severity = Warning /\ Naming(f, name))
              = IF InDictionary(name) THEN 0
                ELSE Occurrences(CapturedNames(document[i]), name)

ExemptTokens == {"SPELL", "TALENT", "VARNAME", "133", "2825"}

\* C10: the placeholders SPELL, TALENT, VARNAME and all-digit tokens are not
\* reported as unknown spells, neither as the leading action keyword nor as
\* the name captured by a templated expression
PlaceholdersExempt ==
    passRan =>
        \A k \in 1..Len(diagnostics) : \A token \in ExemptTokens :
            ~(IsUnknownSpell(diagnostics[k]) /\ Naming(diagnostics[k], token))

\* ------------------------------------------------------------------------
\* config. and var. references
\* ------------------------------------------------------------------------

LineReferences == "  - fireball,if=var.x>config.x&config.y<config.y|config.aoe_enabled"
LineComment == "  # var.z>config.z"

LinesRefs == {"config:", "variables:", "  x:", LineReferences, LineComment}

SpecRefs == EditInit({FsMain}) /\ [][EditNext(LinesRefs)]_vars

\* the names after config. on a line, one per occurrence
ConfigRefs(line) ==
    IF line = LineReferences THEN <<"x", "y", "y", "aoe_enabled">>
    ELSE IF line = LineComment THEN <<"z">>
    ELSE <<>>

\* the names after var. on a line, one per occurrence
VarRefs(line) ==
    IF line = LineReferences THEN <<"x">>
    ELSE IF line = LineComment THEN <<"z">>
    ELSE <<>>

RefNames == {"x", "y", "z", "aoe_enabled"}

\* C4: on a line that is no comment, the warnings that name NAME as an
\* undefined config variable are as many as the occurrences of config.NAME
\* when NAME is neither declared in the config: section nor a shared config
\* variable, and none otherwise; the warnings that name NAME as an undefined
\* variable are as many as the occurrences of var.NAME when NAME is not
\* declared in the variables: section, and none otherwise
ReferenceValidation ==
    passRan =>
        \A i \in 1..Len(document) : \A name \in RefNames :
            document[i] # LineComment =>
                /\ Count(OnLine(i),
                         LAMBDA f : IsUndefinedConfig(f) /\ f.severity = Warning
                                    /\ Naming(f, name))
                     = IF name \in DeclaredIn(document, "config:", RefNames)
                          \/ name \in sharedConfigVars
                       THEN 0
                       ELSE Occurrences(ConfigRefs(document[i]), name)
                /\ Count(OnLine(i),
                         LAMBDA f : IsUndefinedVariable(f) /\ f.severity = Warning
                                    /\ Naming(f, name))
                     = IF name \in DeclaredIn(document, "variables:", RefNames)
                       THEN 0
                       ELSE Occurrences(VarRefs(document[i]), name)

\* a pass over a document that declares the config variable x, not the
\* variable x, and holds the line of references
ReferenceValidationCase ==
    /\ passRan
    /\ "x" \in DeclaredIn(document, "config:", RefNames)
    /\ "x" \notin DeclaredIn(document, "variables:", RefNames)
    /\ \E i \in 1..Len(document) : document[i] = LineReferences

\* ------------------------------------------------------------------------
\* The findings of a pass: order, severity, independence of the lines
\* ------------------------------------------------------------------------

LineUnresolved == "  - frostbolt,if=var.x>config.y"
LineMalformed == "  - call_action_list,name=other,if=((buff.hast.up"

LinesRevise == {"variables:", "  x:", LineUnresolved, LineMalformed}

SpecRevise == EditInit({FsMain}) /\ [][ReviseNext(LinesRevise)]_vars

\* C5 as the specification states it: the findings of a pass are ordered by
\* line and, within a line, by start column
FindingsInLineThenColumnOrder ==
    passRan =>
        \A k \in 1..(Len(diagnostics) - 1) :
            \/ diagnostics[k].line < diagnostics[k + 1].line
            \/ /\ diagnostics[k].line = diagnostics[k + 1].line
               /\ diagnostics[k].start <= diagnostics[k + 1].start

\* C5: the findings of a pass are ordered by line number; within a line they
\* follow the order of the checks, not the columns
FindingsInLineOrder ==
    passRan =>
        \A k \in 1..(Len(diagnostics) - 1) :
            diagnostics[k].line <= diagnostics[k + 1].line

\* a pass with findings on two lines and, on one line, a finding that
\* starts left of the finding before it
FindingsInLineOrderCase ==
    /\ passRan
    /\ \E k \in 1..(Len(diagnostics) - 1) :
           diagnostics[k].line < diagnostics[k + 1].line
    /\ \E k \in 1..(Len(diagnostics) - 1) :
           /\ diagnostics[k].line = diagnostics[k + 1].line
           /\ diagnostics[k].start > diagnostics[k + 1].start

\* the findings among `findings` for line i, lines counted from 1
OnLineOf(findings, i) == SelectSeq(findings, LAMBDA f : f.line = i - 1)

\* C6: from one pass to the next, with the dictionary and the three symbol
\* sets unchanged, every line whose text and position are unchanged keeps
\* its findings, whatever the other lines have become
LineIndependence ==
    [][(/\ passRan /\ passRan'
        /\ db' = db
        /\ collectDefinedLists(document') = collectDefinedLists(document)
        /\ collectDefinedConfigVars(document') = collectDefinedConfigVars(document)
        /\ collectDefinedVariables(document') = collectDefinedVariables(document))
       => \A i \in 1..Min(Len(document), Len(document')) :
              document'[i] = document[i] =>
                  OnLineOf(diagnostics', i) = OnLineOf(diagnostics, i)]_vars

\* a pass over a document in which a malformed line, reported as an error,
\* precedes a line that has findings of its own
LineIndependenceCase ==
    /\ passRan
    /\ \E i \in 1..Len(document) : \E j \in (i + 1)..Len(document) :
           /\ document[i] = LineMalformed
           /\ \E k \in 1..Len(OnLine(i)) : OnLine(i)[k].severity = Error
           /\ document[j] = LineUnresolved
           /\ OnLine(j) # <<>>

IsUnresolvedReference(f) ==
    IsUnknownSpell(f) \/ IsUndefinedList(f) \/ IsUndefinedVariable(f) \/ IsUndefinedConfig(f)

\* C7 as the specification states it: every finding about an unknown spell,
\* an undefined action list, an undefined variable or an undefined config
\* variable is a Warning
UnresolvedAreWarnings ==
    passRan =>
        \A k \in 1..Len(diagnostics) :
            IsUnresolvedReference(diagnostics[k]) => diagnostics[k].severity = Warning

\* C7: a finding about an unknown spell, an undefined variable or an
\* undefined config variable is a Warning; a finding about an undefined
\* action list is an Error
UnresolvedSeverities ==
    passRan =>
        \A k \in 1..Len(diagnostics) :
            /\ (IsUnknownSpell(diagnostics[k]) \/ IsUndefinedVariable(diagnostics[k])
                  \/ IsUndefinedConfig(diagnostics[k]))
               => diagnostics[k].severity = Warning
            /\ IsUndefinedList(diagnostics[k]) => diagnostics[k].severity = Error

\* a pass that reports an unknown spell, an undefined list, an undefined
\* variable and an undefined config variable
UnresolvedSeveritiesCase ==
    /\ passRan
    /\ \E k \in 1..Len(diagnostics) : IsUnknownSpell(diagnostics[k])
    /\ \E k \in 1..Len(diagnostics) : IsUndefinedList(diagnostics[k])
    /\ \E k \in 1..Len(diagnostics) : IsUndefinedVariable(diagnostics[k])
    /\ \E k \in 1..Len(diagnostics) : IsUndefinedConfig(diagnostics[k])

\* ------------------------------------------------------------------------
\* The shape of an action line
\* ------------------------------------------------------------------------

LineDangling == "  - spell,if=energy>"
LineDanglingAnd == "  - fireball,if=buff.haste.up&"
LineCallNoName == "  - call_action_list"
LineRunEmptyName == "  - run_action_list,name="
LineCallAliasEmpty == "  - call="

LinesShape ==
    {LineDangling, LineDanglingAnd, LineCallNoName, LineRunEmptyName, LineCallAliasEmpty}

SpecShape == EditInit({FsMain}) /\ [][EditNext(LinesShape)]_vars

\* C8: the action line `  - spell,if=energy>`, whose condition ends in an
\* operator without a right operand, has exactly one Warning finding about
\* the operator
DanglingOperatorWarned ==
    passRan =>
        \A i \in 1..Len(document) :
            document[i] = LineDangling =>
                Count(OnLine(i),
                      LAMBDA f : f.severity = Warning /\ includes(f.message, "operator")) = 1

\* C9: every action line that invokes call_action_list, run_action_list or
\* call= without a list name, the parameter absent or its value empty, has
\* an Error finding
MissingListNameIsError ==
    passRan =>
        \A i \in 1..Len(document) :
            document[i] \in {LineCallNoName, LineRunEmptyName, LineCallAliasEmpty} =>
                \E k \in 1..Len(OnLine(i)) : OnLine(i)[k].severity = Error

\* ------------------------------------------------------------------------
\* Properties: what the hover of a token documents
\* ------------------------------------------------------------------------

LineExact == "  - fireball,if=health.pct<50&usable.SPELL|player.moving"
LineCycle == "  - heal,cycle=members,if=health.pct<50&buff.haste.up.any"
LineAny == "  - x,if=usable.any|cycle.buff.x.up.any&dot.bleed.ticking.any&debuff.rip.up"
LineShapes == "  - y,if=active_dot.rip.any>2&nameplates.debuff.rip.up.any&target"

DocsHover == {<<LineExact>>, <<LineCycle>>, <<LineAny>>, <<LineShapes, LineCycle>>}

HoverNext ==
    \/ ActivateStart
    \/ AutoLoadResume
    \/ ActivateFinish
    \/ \E newDoc \in DocsHover : document = <<>> /\ OpenDocument(newDoc)
    \/ \E position \in Positions(document) : ProvideHover(position)

\* the extension over fixed files, with documents opened and hovers asked for
SpecHover == EditInit({FsMain}) /\ [][HoverNext]_vars

\* the last request was a hover request
Hovered == call.op = "provideHover"

\* the line of the last hover request and the 0-based column in it
HoverLine == call.args[1][call.args[2].line + 1]
HoverColumn == call.args[2].character

\* the characters a..b of the line are a whole token: dots and word
\* characters, with neither before nor after
IsToken(line, a, b) ==
    /\ a <= b
    /\ \A i \in a..b : Ch(line, i) \in WordSet \cup {"."}
    /\ At(line, a - 1) \notin WordSet \cup {"."}
    /\ At(line, b + 1) \notin WordSet \cup {"."}

\* the tokens under the position of the last hover request, or ending at it
HoveredTokens ==
    {SubSeq(HoverLine, r[1], r[2]) :
        r \in {q \in (1..Len(HoverLine)) \X (1..Len(HoverLine)) :
                  /\ IsToken(HoverLine, q[1], q[2])
                  /\ q[1] - 1 <= HoverColumn
                  /\ HoverColumn <= q[2]}}

\* the line of the last hover request names a cycle target
HoverInCycle == \E t \in CycleTargets : includes(HoverLine, "cycle=" \o t)

\* the hover shows the type and the description of the dictionary entry
Documents(hover, info) ==
    /\ Len(hover) >= 3
    /\ hover[2] = "*Type:* '" \o info.type \o "'\n\n"
    /\ hover[3] = info.description

\* C11 as stated: a token that is a key of the expression dictionary is
\* answered with the documentation of that entry, whatever else is on the line
ExactKeyAnswered ==
    Hovered =>
        \A w \in HoveredTokens :
            Defined(EXPRESSIONS, w) =>
                /\ call.result[1] = "**" \o w \o "**\n\n"
                /\ Documents(call.result, Lookup(EXPRESSIONS, w))

\* the token is one that reads differently on the line it is hovered on
CycleSensitive(w) == HoverInCycle /\ Defined(CYCLE_CONTEXT_EXPRESSIONS, w)

\* C11 amended: on a line with a cycle target, a cycle-context expression is
\* answered with its cycle-context documentation; any other token that is a
\* key of the expression dictionary is answered with the documentation of
\* that entry; a token that is neither gets no dictionary documentation
ExactAfterCycleContext ==
    Hovered =>
        \A w \in HoveredTokens :
            /\ CycleSensitive(w) =>
                    /\ call.result[1] = "**" \o w \o "** *(cycle context)*\n\n"
                    /\ Documents(call.result, Lookup(CYCLE_CONTEXT_EXPRESSIONS, w))
            /\ (~CycleSensitive(w) /\ Defined(EXPRESSIONS, w)) =>
                    /\ call.result[1] = "**" \o w \o "**\n\n"
                    /\ Documents(call.result, Lookup(EXPRESSIONS, w))
            /\ (~CycleSensitive(w) /\ ~Defined(EXPRESSIONS, w)) =>
                    \A k \in 1..Len(EXPRESSIONS) :
                        ~Documents(call.result, EXPRESSIONS[k])

\* a hover on usable.SPELL, a key that is a templated shape as well
ExactAfterCycleContextCase ==
    /\ Hovered
    /\ "usable.SPELL" \in HoveredTokens
    /\ Documents(call.result, Lookup(EXPRESSIONS, "usable.SPELL"))

\* the token without its last four characters
Stripped(w) == SubSeq(w, 1, Len(w) - 4)

\* the positions of the apostrophes of a text
QuoteMarks(text) == {i \in 1..Len(text) : Ch(text, i) = "'"}

\* the names a text quotes: what stands between an apostrophe with an even
\* number of apostrophes before it and the next apostrophe
QuotedNames(text) ==
    {Slice(text, i + 1, FirstIn({j \in QuoteMarks(text) : j > i}) - 1) :
        i \in {q \in QuoteMarks(text) :
                  /\ Cardinality({j \in QuoteMarks(text) : j < q}) % 2 = 0
                  /\ \E j \in QuoteMarks(text) : j > q}}

\* the hover of the base token shows the names that the hover of the token
\* with .any shows
SameNames(anyHover, baseHover, base) ==
    /\ baseHover # NoHover
    /\ startsWith(anyHover[1], "**" \o base \o ".any**")
    /\ startsWith(baseHover[1], "**" \o base \o "**")
    /\ QuotedNames(anyHover[2]) \subseteq QuotedNames(baseHover[2])

\* the token is one that the template resolver has answered
TemplateAnswered(w) ==
    /\ call.result # NoHover
    /\ call.result = matchTemplate(w, HoverInCycle)

\* C12 as stated: a token ending in .any that the template resolver matches
\* is matched without its .any as well, with the same captured names
AnyTokenHasBase ==
    Hovered =>
        \A w \in HoveredTokens :
            (EndsWith(w, ".any") /\ TemplateAnswered(w)) =>
                SameNames(call.result, matchTemplate(Stripped(w), HoverInCycle),
                          Stripped(w))

\* the token has the form of the .any variant of a shape: .any follows the
\* captured names of buff, debuff, dot, active_dot, nameplates or cycle
AnyVariant(w) ==
    /\ EndsWith(w, ".any")
    /\ \/ /\ CountCh(w, ".") = 3
          /\ \E f \in {"buff.", "debuff.", "dot."} : startsWith(w, f)
       \/ CountCh(w, ".") = 2 /\ startsWith(w, "active_dot.")
       \/ /\ CountCh(w, ".") = 4
          /\ \E f \in {"nameplates.buff.", "nameplates.debuff.",
                        "cycle.buff.", "cycle.debuff."} : startsWith(w, f)

\* C12 amended: a token that the template resolver matches as the .any
\* variant of a shape is matched without its .any as well, with the same
\* captured names
AnyVariantHasBase ==
    Hovered =>
        \A w \in HoveredTokens :
            (AnyVariant(w) /\ TemplateAnswered(w)) =>
                SameNames(call.result, matchTemplate(Stripped(w), HoverInCycle),
                          Stripped(w))

\* a hover on buff.haste.up.any, answered by the template resolver
AnyVariantHasBaseCase ==
    /\ Hovered
    /\ "buff.haste.up.any" \in HoveredTokens
    /\ TemplateAnswered("buff.haste.up.any")
    /\ "haste" \in QuotedNames(call.result[2])

\* ------------------------------------------------------------------------
\* Properties: what a reload leaves in the dictionary
\* ------------------------------------------------------------------------

CsvFrost == <<"id,name", "122,Frost Nova">>

FsFrost == FileSystem([p \in {"/ws/spells.csv"} |-> CsvFrost])
FsBoth ==
    FileSystem([p \in {"/ws/spells.csv", "/ws/data/spells.csv"} |->
                  IF p = "/ws/spells.csv" THEN CsvMain ELSE CsvFrost])

FsReload == {FsNone, FsMain, FsFrost, FsBoth}

ReloadProbes == {"Fireball", "frost nova"}

\* the extension with reloads, files that change between the loads, and
\* readers of the dictionary: validation passes and queries
ReloadNext ==
    \/ ActivateStart
    \/ AutoLoadResume
    \/ ActivateFinish
    \/ ReloadSpells
    \/ ReloadFinish
    \/ \E newFs \in FsReload : WriteFile(newFs)
    \/ OpenDocument(DocUnknown)
    \/ \E name \in ReloadProbes : IsValidSpell(name)

SpecReload == InitWith(FsReload, {OneFolder}, {YamlDoc}) /\ [][ReloadNext]_vars

\* id and display name of the records of a table
RecordsOf(table) == {<<table[k].id, table[k].name>> : k \in 1..Len(table)}

\* the records in the files of a file system of FsReload
RecordsIn(files) ==
    (IF files \in {FsMain, FsBoth}
     THEN {<<133, "Fireball">>, <<2825, "Haste">>} ELSE {})
    \cup (IF files \in {FsFrost, FsBoth} THEN {<<122, "Frost Nova">>} ELSE {})

\* C13: when a load or a reload has completed, both tables hold exactly the
\* records of the files read by it: the records of all its files together,
\* and after a reload none of the records held before unless a file has it
ReloadReplaces ==
    (task.op # "none" /\ Returned(task)) =>
        /\ RecordsOf(spells) = RecordsIn(fs)
        /\ RecordsOf(spellsById) = RecordsIn(fs)
        /\ Len(spells) = Cardinality(RecordsIn(fs))

\* a reload has completed over a file that lacks records held before it
ReloadReplacesCase ==
    /\ task.op = "reload"
    /\ Returned(task)
    /\ fs = FsFrost
    /\ <<133, "Fireball">> \in RecordsOf(reloadFrom.spells)
    /\ RecordsOf(spells) = {<<122, "Frost Nova">>}

\* a reload is in flight: started and not yet returned
Reloading == task.op = "reload" /\ ~Returned(task)

\* the step is a read of the dictionary: a validation pass or a query
ReadStep ==
    \/ passRan'
    \/ call'.op # call.op
    \/ call'.op = call.op /\ call'.op # "none"
                          /\ (call'.args # call.args \/ call'.result # call.result)

\* the dictionary is as the reload found it, or as it leaves it
BeforeOrAfterReload ==
    \/ db = reloadFrom
    \/ /\ RecordsOf(spells) = RecordsIn(fs)
       /\ RecordsOf(spellsById) = RecordsIn(fs)
       /\ loaded = (fs # FsNone)

\* C14: a validation pass or a query that runs while a reload is in flight
\* reads the dictionary as it was before the reload or as it is after it
ReloadAtomic ==
    [][(Reloading /\ ReadStep) => BeforeOrAfterReload]_vars

\* ------------------------------------------------------------------------
\* Properties: the findings published after the events of a document
\* ------------------------------------------------------------------------

\* C15: once the handlers are registered, after every event that changes the
\* text of the document the published findings are those of a validation
\* pass over the new text, and nothing of an earlier text remains
PublishedAreLatest ==
    [][(activated /\ document' # document) =>
          diagnostics' = updateDiagnostics(document', db)]_vars

\* ------------------------------------------------------------------------
\* Properties: the order of start-up
\* ------------------------------------------------------------------------

\* the step is a request served by a provider
ServedStep ==
    \/ call'.op # call.op
    \/ call'.op = call.op /\ call'.op # "none"
                          /\ (call'.args # call.args \/ call'.result # call.result)

\* the step changes the dictionary
LoadStep == spells' # spells \/ spellsById' # spellsById \/ loaded' # loaded

\* C16: a validation pass runs and a provider answers only once activate has
\* registered them, which it does when the autoLoad it awaits has returned;
\* the dictionary is loaded by the autoLoad of activate, started once, and
\* by that of the reload command, and by nothing else
StartupOrder ==
    [][/\ passRan' => activated'
       /\ ServedStep => activated
       /\ (activated' /\ ~activated) => (task.op = "activate" /\ Returned(task))
       /\ LoadStep => task'.op \in {"activate", "reload"}
       /\ (task'.op = "activate" /\ task.op # "activate") =>
              (~activated /\ extensionPath = "")
       /\ (task'.op = "reload" /\ task.op # "reload") => activated]_vars

\* a document is opened while activate awaits autoLoad: nothing is published
StartupOrderCase ==
    /\ task.op = "activate"
    /\ ~Returned(task)
    /\ loaded
    /\ document = DocUnknown
    /\ ~passRan
    /\ diagnostics = <<>>

\* ------------------------------------------------------------------------
\* Properties: the queries of the dictionary
\* ------------------------------------------------------------------------

CsvQuery ==
    <<"id,name", "1,Frost Nova", "2,Fira", "3,Fire", "4,Firo", "5,Firu",
      "6,Firy", "7,Firz", "8,Fir">>

FsQuery ==
    FileSystem([p \in {"/ws/spells.csv", "/ws/data/spells.csv"} |->
                  IF p = "/ws/spells.csv" THEN CsvMain ELSE CsvQuery])

ValidProbes ==
    {"frost_nova", "frost nova", "Frost Nova", "FROST-NOVA", "frostnova",
     "Fire!", "fyre"}
SimilarProbes == {"fire", "firx", "Frost Nova", "zzzzzz"}
Distances == 0..2
SearchProbes == {"fir", "FIR", "Nova", "frost n", "frost_n", "", "zz"}
Limits == {0, 1, 2, 30}
NormalizeProbes ==
    {"Frost Nova", "  Frost's__Nova!", "__a__b__", "_", "", "a-'-b",
     "A1 _ b2", "'", "frost_nova", "x'_'y", "-_-"}

\* the extension over the files of FsQuery, with reloads and the queries
QueryNext ==
    \/ ActivateStart
    \/ AutoLoadResume
    \/ ActivateFinish
    \/ ReloadSpells
    \/ ReloadFinish
    \/ \E name \in ValidProbes : IsValidSpell(name)
    \/ \E name \in SimilarProbes : \E d \in Distances : FindSimilar(name, d)
    \/ \E prefix \in SearchProbes : \E limit \in Limits : SearchSpells(prefix, limit)
    \/ \E name \in NormalizeProbes : NormalizeName(name)

SpecQuery == EditInit({FsQuery}) /\ [][QueryNext]_vars

\* the display names of the records in the files of FsQuery
NamesInFiles ==
    {"Fireball", "Haste", "Frost Nova", "Fira", "Fire", "Firo", "Firu",
     "Firy", "Firz", "Fir"}

\* C17: with the files loaded and no reload in flight, isValidSpell answers
\* true for every name whose normalized form is that of the display name of
\* a loaded record
ValidByNormalizedName ==
    [][(ServedStep /\ call'.op = "isValidSpell" /\ task.op = "none") =>
          \A N \in NamesInFiles :
              normalizeName(call'.args[1]) = normalizeName(N) =>
                  call'.result = TRUE]_vars

\* the record Frost Nova is found under the name frost nova
ValidByNormalizedNameCase ==
    /\ task.op = "none"
    /\ loaded
    /\ call.op = "isValidSpell"
    /\ call.args = <<"frost nova">>
    /\ call.result = TRUE

\* a name in normalized form: lowercase letters, digits and underscores, no
\* underscore at either end and no two of them in a row
IsNormalized(r) ==
    /\ \A i \in 1..Len(r) : Ch(r, i) \in LowerSet \cup DigitSet \cup {"_"}
    /\ \A i \in 1..Len(r) :
          Ch(r, i) = "_" => (i > 1 /\ i < Len(r) /\ Ch(r, i + 1) # "_")

\* C18: the normalized form of a name is in normalized form, and
\* normalizing it again leaves it as it is
NormalizeIdempotent ==
    call.op = "normalizeName" =>
        /\ IsNormalized(call.result)
        /\ normalizeName(call.result) = call.result

\* a name with capitals, an apostrophe, runs of underscores and spaces
NormalizeIdempotentCase ==
    /\ call.op = "normalizeName"
    /\ call.args = <<"  Frost's__Nova!">>
    /\ call.result = "frosts_nova"

\* the indices of the records of the table within maxDistance of a
\* normalized name, the name itself left out
NearIndices(normalized, maxDistance) ==
    {k \in 1..Len(spells) :
        \E d \in {levenshteinDistance(normalized, spells[k].normalizedName)} :
            d > 0 /\ d <= maxDistance}

\* the sequence r holds, in the order of the table, the records at the first
\* n indices of the set I, and all of them when I has fewer
FirstOf(r, I, n) ==
    /\ Len(r) = IF Cardinality(I) < n THEN Cardinality(I) ELSE n
    /\ \A i \in 1..Len(r) :
          \E k \in I : /\ Cardinality({j \in I : j < k}) = i - 1
                        /\ r[i] = spells[k]

\* C19: findSimilar answers with the first five, in the order of the table,
\* of the records whose distance d from the normalized name is 0 < d <=
\* maxDistance
SimilarFirstFive ==
    [][(ServedStep /\ call'.op = "findSimilar") =>
          \E normalized \in {normalizeName(call'.args[1])} :
              \E I \in {NearIndices(normalized, call'.args[2])} :
                  \E r \in {call'.result} : FirstOf(r, I, 5)]_vars

\* six records are within distance 1 of fire, Fire itself is not among the
\* five of the answer
SimilarFirstFiveCase ==
    /\ call.op = "findSimilar"
    /\ call.args = <<"fire", 1>>
    /\ [i \in 1..Len(call.result) |-> call.result[i].name]
          = <<"Fira", "Firo", "Firu", "Firy", "Firz">>

\* the indices of the records of the table whose key starts with the
\* normalized prefix or whose display name holds the prefix, capitals aside
PrefixIndices(normalized, lowered) ==
    {k \in 1..Len(spells) :
        \/ startsWith(spells[k].normalizedName, normalized)
        \/ includes(toLowerCase(spells[k].name), lowered)}

\* C20: searchSpells answers with the first `limit` of the records that
\* match the prefix, in the order of the table, and never with more than
\* `limit` records
SearchFirstLimit ==
    [][(ServedStep /\ call'.op = "searchSpells") =>
          \E normalized \in {normalizeName(call'.args[1])} :
              \E lowered \in {toLowerCase(call'.args[1])} :
                  \E I \in {PrefixIndices(normalized, lowered)} :
                      \E r \in {call'.result} :
                          /\ FirstOf(r, I, call'.args[2])
                          /\ Len(r) <= call'.args[2]]_vars

\* ------------------------------------------------------------------------
\* Properties: rows whose names or ids collide
\* ------------------------------------------------------------------------

CsvCollide ==
    <<"id,name", "1,Frost Nova", "5,Fire", "2,frost_nova", "3,Frost-Nova">>
CsvCollideLater == <<"id,name", "4,FROST NOVA", "5,Ice">>

FsCollide == FileSystem([p \in {"/ws/spells.csv"} |-> CsvCollide])
FsCollideTwo ==
    FileSystem([p \in {"/ws/spells.csv", "/ws/data/spells.csv"} |->
                  IF p = "/ws/spells.csv" THEN CsvCollide ELSE CsvCollideLater])

NameProbes == {"frost nova", "Frost_Nova", "fire", "Ice", "haste"}
IdProbes == 1..6

\* the extension over files with colliding rows, with reloads and lookups
CollideNext ==
    \/ ActivateStart
    \/ AutoLoadResume
    \/ ActivateFinish
    \/ ReloadSpells
    \/ ReloadFinish
    \/ \E name \in NameProbes : GetSpell(name)
    \/ \E id \in IdProbes : GetSpellById(id)

SpecCollide == EditInit({FsCollide, FsCollideTwo}) /\ [][CollideNext]_vars

\* id and display name of the last row, in the order of loading, whose name
\* has the normalized key, for the files of FsCollide and FsCollideTwo
LastRow(files, key) ==
    IF key = "frost_nova"
    THEN IF files = FsCollideTwo THEN <<<<4, "FROST NOVA">>>>
         ELSE <<<<3, "Frost-Nova">>>>
    ELSE IF key = "fire" THEN <<<<5, "Fire">>>>
    ELSE IF key = "ice" /\ files = FsCollideTwo THEN <<<<5, "Ice">>>>
    ELSE <<>>

\* id and display name of the records of an answer
Shown(result) == [i \in 1..Len(result) |-> <<result[i].id, result[i].name>>]

\* C21: the table holds one record for a key, each under the normalized
\* form of its own name, and with the files loaded a lookup by a key
\* answers with the row loaded last among those of that key
LastLoadedWins ==
    /\ [](\A j, k \in 1..Len(spells) :
            spells[j].normalizedName = spells[k].normalizedName => j = k)
    /\ [](\A k \in 1..Len(spells) :
            spells[k].normalizedName = normalizeName(spells[k].name))
    /\ [][(ServedStep /\ call'.op = "getSpell" /\ task.op = "none") =>
            \E key \in {normalizeName(call'.args[1])} :
                Shown(call'.result) = LastRow(fs, key)]_vars

\* three rows of one file share the key frost_nova: the lookup answers with
\* the third
LastLoadedWinsCase ==
    /\ fs = FsCollide
    /\ task.op = "none"
    /\ call.op = "getSpell"
    /\ call.args = <<"frost nova">>
    /\ Shown(call.result) = <<<<3, "Frost-Nova">>>>

\* ------------------------------------------------------------------------
\* Properties: loads that fail
\* ------------------------------------------------------------------------

CsvNoIdColumn == <<"ident,name", "133,Fireball">>

FsLoad ==
    FileSystem([p \in {"/ws/spells.csv", "/ws/data/spells.csv",
                       "/ws/yaml/spells.csv"} |->
                  IF p = "/ws/spells.csv" THEN CsvMain
                  ELSE IF p = "/ws/data/spells.csv" THEN CsvNoNameColumn
                  ELSE CsvNoIdColumn])

FsLoadPool == {FsNone, FsLoad, FsFrost}

\* the extension with files that change and direct calls of loadFromCsv
LoadNext ==
    \/ ActivateStart
    \/ AutoLoadResume
    \/ ActivateFinish
    \/ \E path \in AllPaths : LoadFromCsv(path)
    \/ \E newFs \in FsLoadPool : WriteFile(newFs)

SpecLoad == EditInit(FsLoadPool) /\ [][LoadNext]_vars

\* the sources that loadFromCsv cannot load: no file, no id column, no name
\* column
Unloadable == {NoFile, CsvNoIdColumn, CsvNoNameColumn}

\* C22: a call of loadFromCsv on a source that is absent or whose header
\* lacks the id column or the name column answers false and leaves both
\* tables and the loaded flag as they were
FailedLoadKeepsState ==
    [][(/\ task.op = "none" /\ task'.op = "none" /\ fs' = fs
        /\ call'.op = "loadFromCsv"
        /\ fs[call'.args[1]] \in Unloadable) =>
          /\ call'.result = FALSE
          /\ spells' = spells
          /\ spellsById' = spellsById
          /\ loaded' = loaded]_vars

\* a file without name column was asked for while two records were loaded
FailedLoadKeepsStateCase ==
    /\ call.op = "loadFromCsv"
    /\ fs[call.args[1]] = CsvNoNameColumn
    /\ call.result = FALSE
    /\ loaded
    /\ RecordsOf(spells) = {<<133, "Fireball">>, <<2825, "Haste">>}

\* ------------------------------------------------------------------------
\* Properties: what the readers of the dictionary leave alone
\* ------------------------------------------------------------------------

\* the extension with reloads and every kind of reader: validation passes
\* and the three queries
ReadsNext ==
    \/ ActivateStart
    \/ AutoLoadResume
    \/ ActivateFinish
    \/ ReloadSpells
    \/ ReloadFinish
    \/ OpenDocument(DocUnknown)
    \/ \E name \in ReloadProbes : IsValidSpell(name)
    \/ \E name \in {"hast", "frost nova"} : FindSimilar(name, DefaultMaxDistance)
    \/ \E prefix \in {"f", "Nova"} : \E limit \in {1, 30} : SearchSpells(prefix, limit)

SpecReads == EditInit({FsNone, FsBoth}) /\ [][ReadsNext]_vars

\* C23: a validation pass and the queries isValidSpell, searchSpells and
\* findSimilar leave both tables and the loaded flag as they are; these
\* change only in steps of the autoLoad of activate or of a reload
ReadsArePure ==
    [][/\ ReadStep => ~LoadStep
       /\ LoadStep => task'.op \in {"activate", "reload"}]_vars

\* findSimilar has answered from the loaded table, which is as it was
ReadsArePureCase ==
    /\ call.op = "findSimilar"
    /\ call.args = <<"hast", DefaultMaxDistance>>
    /\ Shown(call.result) = <<<<2825, "Haste">>>>
    /\ RecordsOf(spells) = RecordsIn(FsBoth)
    /\ loaded

\* ------------------------------------------------------------------------
\* Properties: identifiers that an edit removes
\* ------------------------------------------------------------------------

DocDeclaresList ==
    <<"lists:", "  main:", "actions:", "  - call_action_list,name=main">>
DocDeclaresConfig ==
    <<"config:", "  power:", "actions:", "  - fireball,if=config.power>1">>
DocDeclaresVariable ==
    <<"variables:", "  pool: energy", "actions:", "  - fireball,if=var.pool>1">>

DocsDeclaring == {DocDeclaresList, DocDeclaresConfig, DocDeclaresVariable}

\* lines that neither declare nor reference one of the three identifiers
LinesRemoving == {"actions:", "  other:", "  # removed"}

\* the extension over documents that declare what they reference: once the
\* handlers are registered, edits replace one line by a line of
\* LinesRemoving.  A text that references an identifier without declaring it
\* is a revision of a text that declared it and that a pass has read.
UndeclareNext ==
    \/ ActivateStart
    \/ AutoLoadResume
    \/ ActivateFinish
    \/ \E newDoc \in DocsDeclaring : document = <<>> /\ OpenDocument(newDoc)
    \/ \E newDoc \in Revised(LinesRemoving) :
          activated /\ document # <<>> /\ ChangeDocument(newDoc)

SpecUndeclare == EditInit({FsMain}) /\ [][UndeclareNext]_vars

\* the document has the line `decl` in the section of `header`
Declares(doc, header, decl) ==
    \E i \in 1..Len(doc) : doc[i] = decl /\ InSection(doc, i, header)

\* the findings of line i that report `name` as undefined, P telling the
\* kind of finding
UndefinedOn(i, name, P(_)) ==
    Count(OnLine(i), LAMBDA f : P(f) /\ Naming(f, name))

\* line i references a name that the document declares by `decl` under
\* `header`: no finding of kind P if it does, one if it does not
DeclaredOrReported(i, ref, header, decl, name, P(_)) ==
    document[i] = ref =>
        UndefinedOn(i, name, P) =
            IF Declares(document, header, decl) THEN 0 ELSE 1

\* C24: the findings of a pass are those of the text and the dictionary of
\* that pass alone: a referenced list, config variable or variable is
\* reported as undefined exactly when the text of the pass does not declare
\* it, whatever the earlier revisions declared
SymbolsOfThisPass ==
    passRan =>
        /\ diagnostics = updateDiagnostics(document, db)
        /\ \A i \in 1..Len(document) :
              /\ DeclaredOrReported(i, "  - call_action_list,name=main", "lists:",
                                    "  main:", "main", IsUndefinedList)
              /\ DeclaredOrReported(i, "  - fireball,if=config.power>1", "config:",
                                    "  power:", "power", IsUndefinedConfig)
              /\ DeclaredOrReported(i, "  - fireball,if=var.pool>1", "variables:",
                                    "  pool: energy", "pool", IsUndefinedVariable)

\* the declaration of the list main has been replaced: the call of main,
\* accepted by the pass over the earlier text, is reported
SymbolsOfThisPassCase ==
    /\ passRan
    /\ document = <<"lists:", "  other:", "actions:", "  - call_action_list,name=main">>
    /\ UndefinedOn(4, "main", IsUndefinedList) = 1

\* ------------------------------------------------------------------------
\* Properties: unbalanced parentheses
\* ------------------------------------------------------------------------

\* lines with the numbers of ( and ) after the dash; action tells whether
\* the line is an action line
ParenLines ==
    {[text |-> "  - spell,if=(energy>50", action |-> TRUE, open |-> 1, close |-> 0],
     [text |-> "  - spell,if=(a>1)&(b>2", action |-> TRUE, open |-> 2, close |-> 1],
     [text |-> "  -spell,if=energy>50))", action |-> TRUE, open |-> 0, close |-> 2],
     [text |-> "  - spell,if=)energy>50(", action |-> TRUE, open |-> 1, close |-> 1],
     [text |-> "  note: (", action |-> FALSE, open |-> 1, close |-> 0]}

LinesParens == {l.text : l \in ParenLines}

SpecParens == EditInit({FsMain}) /\ [][EditNext(LinesParens)]_vars

IsUnbalanced(f) == startsWith(f.message, "Unbalanced parentheses")

\* C25: an action line with different numbers of ( and ) after the dash has
\* exactly one finding about unbalanced parentheses, an Error whose message
\* gives both numbers; any other line has none
UnbalancedReported ==
    passRan =>
        \A i \in 1..Len(document) : \A l \in ParenLines :
            document[i] = l.text =>
                IF l.action /\ l.open # l.close
                THEN /\ Count(OnLine(i), IsUnbalanced) = 1
                     /\ \A k \in 1..Len(diagnostics) :
                           (diagnostics[k].line = i - 1 /\ IsUnbalanced(diagnostics[k])) =>
                               /\ diagnostics[k].severity = Error
                               /\ diagnostics[k].message =
                                     "Unbalanced parentheses: " \o ToString(l.open)
                                       \o " opening, " \o ToString(l.close)
                                       \o " closing"
                ELSE Count(OnLine(i), IsUnbalanced) = 0

\* the line of the specification: 1 opening, 0 closing
UnbalancedReportedCase ==
    /\ passRan
    /\ document = <<"  - spell,if=(energy>50">>
    /\ \E k \in 1..Len(diagnostics) :
          /\ diagnostics[k].severity = Error
          /\ diagnostics[k].message = "Unbalanced parentheses: 1 opening, 0 closing"

\* ------------------------------------------------------------------------
\* Properties: the sections of the symbol scan
\* ------------------------------------------------------------------------

LinesSections ==
    {"lists:", "config:", "entry: main", "  other:",
     "  - call_action_list,name=other"}

SpecSections == EditInit({FsMain}) /\ [][EditNext(LinesSections)]_vars

\* a root-level key line: a key and a colon with nothing in front, with or
\* without a value after the colon
IsRootLevelKey(line) ==
    /\ At(line, 1) \in LowerSet \cup UpperSet \cup {"_"}
    /\ includes(line, ":")

\* line i of doc is a two-space-indented declaration of `name` whose nearest
\* root-level key above is the line `header`
DeclaredUnder(doc, header, name) ==
    \E i \in 1..Len(doc) :
        /\ startsWith(doc[i], "  " \o name \o ":")
        /\ \E j \in 1..(i - 1) :
              /\ doc[j] = header
              /\ \A k \in (j + 1)..(i - 1) : ~IsRootLevelKey(doc[k])

\* C26: every identifier of the three symbol sets of a pass is declared on a
\* two-space-indented line after the header of its section and before the
\* next root-level key line, a key with an inline value included
SectionScoped ==
    passRan =>
        /\ \A name \in Range(collectDefinedLists(document)) :
              DeclaredUnder(document, "lists:", name)
        /\ \A name \in Range(collectDefinedConfigVars(document)) :
              DeclaredUnder(document, "config:", name)
        /\ \A name \in Range(collectDefinedVariables(document)) :
              DeclaredUnder(document, "variables:", name)

\* ------------------------------------------------------------------------
\* Properties: the table of names and the table of ids
\* ------------------------------------------------------------------------

\* the extension over files with and without colliding rows
SpecIndexes ==
    EditInit({FsCollide, FsCollideTwo, FsBoth}) /\ [][CollideNext]_vars

\* C27 as stated: the two tables hold the same records: what getSpell
\* returns is returned by getSpellById for its id, and what getSpellById
\* returns is returned by getSpell for its normalized name
TablesAgree ==
    /\ \A r \in Range(spells) : getSpellById(db, r.id) = <<r>>
    /\ \A q \in Range(spellsById) : getSpell(db, q.normalizedName) = <<q>>

\* C27 amended: every record of the table of names has its id in the table
\* of ids, and every record of the table of ids has its key in the table of
\* names; with files in which no two rows share a key or an id the two
\* tables hold the same records
TablesShareKeys ==
    /\ \A r \in Range(spells) : getSpellById(db, r.id) # <<>>
    /\ \A q \in Range(spellsById) : getSpell(db, q.normalizedName) # <<>>
    /\ fs = FsBoth => TablesAgree

\* the lookup by id answers with the first row of the key frost_nova, the
\* lookup by name with the third
TablesShareKeysCase ==
    /\ fs = FsCollide
    /\ task.op = "none"
    /\ call.op = "getSpellById"
    /\ call.args = <<1>>
    /\ Shown(call.result) = <<<<1, "Frost Nova">>>>
    /\ Shown(getSpell(db, "Frost Nova")) = <<<<3, "Frost-Nova">>>>

\* ------------------------------------------------------------------------
\* Properties: the list names that completion offers
\* ------------------------------------------------------------------------

LinesOffer ==
    {"lists:", "  main:", "actions:", "  - run_action_list,name=", "  - x,call=m"}

\* the positions at the end of a line
LineEnds(doc) == {p \in Positions(doc) : p.character = Len(doc[p.line + 1])}

\* the extension over fixed files: the document is written line by line,
\* then completion is asked for at the ends of its lines
OfferNext ==
    \/ ActivateStart
    \/ AutoLoadResume
    \/ ActivateFinish
    \/ \E newDoc \in Appended(LinesOffer) : call.op = "none" /\ ChangeDocument(newDoc)
    \/ \E position \in LineEnds(document) : ProvideCompletionItems(position)

SpecOffer == EditInit({FsMain}) /\ [][OfferNext]_vars

\* the last request was a completion request
Completed == call.op = "provideCompletionItems"

\* the text, the line (counted from 1) and the text before the cursor of
\* the last completion request
CompletedDoc == call.args[1]
CompletedLine == call.args[2].line + 1
CompletedPrefix == Slice(CompletedDoc[CompletedLine], 1, call.args[2].character)

\* the position after the last character of s that is not a word character
WordFrom(s) ==
    IF IsWordCh(At(s, Len(s))) THEN WordStart(s, Len(s)) ELSE Len(s) + 1

\* the text before the word that is being typed at the cursor
BeforeWord(s) == Slice(s, 1, WordFrom(s) - 1)

\* the cursor is in the value of call=, or of name= in a line that holds
\* call_action_list or run_action_list
ListNameAsked ==
    \/ EndsWith(BeforeWord(CompletedPrefix), "call=")
       /\ ~IsWordCh(At(CompletedPrefix, WordFrom(CompletedPrefix) - 6))
    \/ /\ EndsWith(BeforeWord(CompletedPrefix), "name=")
       /\ ~IsWordCh(At(CompletedPrefix, WordFrom(CompletedPrefix) - 6))
       /\ \/ includes(CompletedPrefix, "call_action_list")
          \/ includes(CompletedPrefix, "run_action_list")

\* the text of the request with the word at the cursor replaced by n
Accepting(n) ==
    [CompletedDoc EXCEPT
       ![CompletedLine] = BeforeWord(CompletedPrefix) \o n
                          \o Rest(CompletedDoc[CompletedLine],
                                  call.args[2].character + 1)]

\* a pass over the text finds the list n of its line i undefined
ListRefused(text, i, n) ==
    \E f \in Range(updateDiagnostics(text, db)) :
        /\ f.line = i - 1
        /\ startsWith(f.message, "Action list \"" \o n \o "\" is not defined")

\* C28: every list name that the completion of the value of name= or call=
\* offers for a document is accepted by the validator for the same document:
\* the line that references it gets no undefined-list finding
OfferedListsAccepted ==
    (Completed /\ ListNameAsked) =>
        \A n \in Range(call.result) : ~ListRefused(Accepting(n), CompletedLine, n)

\* completion offers the shared lists and the list main that the document
\* declares; the validator would refuse the list aoe, which is not offered
OfferedListsAcceptedCase ==
    /\ Completed
    /\ CompletedDoc = <<"lists:", "  main:", "actions:", "  - run_action_list,name=">>
    /\ call.args[2] = [line |-> 3, character |-> 25]
    /\ call.result = completionSharedLists \o <<"main">>
    /\ ListRefused(Accepting("aoe"), 4, "aoe")
    /\ ~ListRefused(Accepting("main"), 4, "main")

\* ------------------------------------------------------------------------
\* Properties: the options that completion offers
\* ------------------------------------------------------------------------

LinesOptions ==
    {"  - x,delay=100,", "  - x,global_delay=100,",
     "  - x,interrupt=true,cycle=members,hotkey=49,",
     "  - y,ignore_cooldown=true,target=lowest"}

DocsOptions == {<<"actions:", l>> : l \in LinesOptions}

\* the extension over fixed files: a document is opened, then completion is
\* asked for at every position after a comma of its action line
OptionsNext ==
    \/ ActivateStart
    \/ AutoLoadResume
    \/ ActivateFinish
    \/ \E newDoc \in DocsOptions : document = <<>> /\ OpenDocument(newDoc)
    \/ \E position \in Positions(document) : ProvideCompletionItems(position)

SpecOptions == EditInit({FsMain}) /\ [][OptionsNext]_vars

\* the option is set in the text s: its name, not part of a longer word,
\* with = after it
IsSet(s, option) ==
    \E p \in 1..Len(s) :
        StartsWithAt(s, p, option \o "=") /\ ~IsWordCh(At(s, p - 1))

\* the cursor of the last completion request is not in the value of an option
NotTypingValue == ~EndsWith(BeforeWord(CompletedPrefix), "=")

\* C29: when the cursor is after a comma of an action line and not in a
\* value, completion offers an option of STEP_OPTIONS exactly when the text
\* before the cursor does not set that option; an option whose name is the
\* end of the name of an option that is set is offered
OptionsOfferedUnlessSet ==
    (Completed /\ NotTypingValue) =>
        \A i \in 1..Len(STEP_OPTIONS) :
            Has(call.result, STEP_OPTIONS[i].key)
                <=> ~IsSet(CompletedPrefix, STEP_OPTIONS[i].key)

\* on the lines that do not set global_delay the options offered are the
\* options that are not set
OptionsOfferedElsewhere ==
    (Completed /\ NotTypingValue /\ ~IsSet(CompletedPrefix, "global_delay")) =>
        \A i \in 1..Len(STEP_OPTIONS) :
            Has(call.result, STEP_OPTIONS[i].key)
                <=> ~IsSet(CompletedPrefix, STEP_OPTIONS[i].key)

\* after `global_delay=100,` neither global_delay nor delay is offered
DelayWithheld ==
    /\ Completed
    /\ CompletedPrefix = "  - x,global_delay=100,"
    /\ ~Has(call.result, "delay")
    /\ ~Has(call.result, "global_delay")
    /\ Has(call.result, "cycle")

\* ------------------------------------------------------------------------
\* Properties: the columns of the findings about undefined lists
\* ------------------------------------------------------------------------

LinesRanges ==
    {"lists:", "  main:", "  - call_action_list,name=aoe", "  - x,call=aoe",
     "  - run_action_list,name=ab,name=a"}

SpecRanges == EditInit({FsMain}) /\ [][EditNext(LinesRanges)]_vars

\* the columns of the finding f are columns of the text and hold the whole
\* of a list name that follows name= or call=
CoversListName(text, f) ==
    /\ 0 <= f.start /\ f.start < f.end /\ f.end <= Len(text)
    /\ f.message = UndefinedListMessage(Slice(text, f.start + 1, f.end),
                                        collectDefinedLists(document))
    /\ ~IsWordCh(At(text, f.end + 1))
    /\ \/ Slice(text, f.start - 4, f.start) = "name="
       \/ Slice(text, f.start - 4, f.start) = "call="

\* C30: the columns of every finding about an undefined list lie within the
\* line of the finding and hold exactly the name of the list, after name= of
\* call_action_list or run_action_list and after call= alike
UndefinedListRange ==
    passRan =>
        \A k \in 1..Len(diagnostics) :
            IsUndefinedList(diagnostics[k]) =>
                CoversListName(document[diagnostics[k].line + 1], diagnostics[k])

\* the same for the texts in which no line holds call= or a second name=
UndefinedListRangeOfName ==
    (passRan /\ \A i \in 1..Len(document) :
                   document[i] \in {"lists:", "  main:", "  - call_action_list,name=aoe"}) =>
        \A k \in 1..Len(diagnostics) :
            IsUndefinedList(diagnostics[k]) =>
                CoversListName(document[diagnostics[k].line + 1], diagnostics[k])

\* the finding for call=aoe is on the columns 4 to 7 of its line, which hold
\* the characters x,c; the name is on the columns 11 to 14
AliasRangeOff ==
    /\ passRan
    /\ document = <<"  - x,call=aoe">>
    /\ \E k \in 1..Len(diagnostics) :
          /\ diagnostics[k].message = "Action list \"aoe\" is not defined"
          /\ diagnostics[k].start = 4
          /\ diagnostics[k].end = 7
====
